---- MODULE Spec2Model ----
(***************************************************************************)
(* A model of scribble's tree store (obj.py, objdict.py) and query layer   *)
(* (scope.py).                                                             *)
(*                                                                         *)
(* Tree nodes are records tagged by kind:                                  *)
(*   none   - Python None                                                  *)
(*   num    - a number                                                     *)
(*   str    - a string                                                     *)
(*   seq    - a Python list                                                *)
(*   map    - a Python dict; cls is its class ("dict" or "Element", the    *)
(*            Objdict subclass the documents are built from); keys is the  *)
(*            insertion order of the keys and vals the values in that      *)
(*            order.                                                       *)
(* Object identity is position in the tree: the trees have no aliasing.    *)
(***************************************************************************)
EXTENDS Integers, Sequences, FiniteSets, TLC

VARIABLES
    obj,      \* the tree an operation acts on
    op,       \* the tree-store call made on it: arguments, tree before, outcome
    stream,   \* the query stream: the positions (in obj) it has still to deliver
    qop,      \* the query call made: arguments and the stream it was applied to
    cur,      \* the value a chain of attribute and index accesses has arrived at
    chain,    \* the accesses of that chain
    probe,    \* the outcome of the last test made of cur (bool, ==, iter, str)
    res,      \* what a collector called on the stream returned or raised
    memo,     \* MemoizedQueryStream.memo, the process-wide table of results
    enabled,  \* MemoizedQueryStream.enabled
    pc,       \* where the process stands in its document runs
    log,      \* the fixups applied in the current run, in order
    env       \* the files and modules the process finds, and its configuration

vars == <<obj, op, stream, qop, cur, chain, probe, res, memo, enabled, pc, log, env>>

\* the variables of a document run
running == <<pc, log, env>>

\* the variables of the collectors, of the memoized streams and of a run
later == <<res, memo, enabled, pc, log, env>>

(***************************************************************************)
(* Bounds                                                                  *)
(***************************************************************************)
MaxPathLen == 3
MaxLen == 2

(***************************************************************************)
(* Values                                                                  *)
(***************************************************************************)
None == [k |-> "none"]
Num(n) == [k |-> "num", n |-> n]
Str(s) == [k |-> "str", s |-> s]
List(items) == [k |-> "seq", items |-> items]
Map(cls, keys, vals) == [k |-> "map", cls |-> cls, keys |-> keys, vals |-> vals]
EmptyMap(cls) == Map(cls, <<>>, <<>>)

IsList(v) == v.k = "seq"
IsDict(v) == v.k = "map"

Range(s) == {s[i] : i \in 1..Len(s)}

\* position of key in the dict's key order (0 when absent)
KeyIndex(m, key) ==
    IF \E i \in 1..Len(m.keys) : m.keys[i] = key
    THEN CHOOSE i \in 1..Len(m.keys) : m.keys[i] = key
    ELSE 0

HasKey(m, key) == KeyIndex(m, key) # 0

\* dict.__getitem__ for a key that is present
MapGet(m, key) == m.vals[KeyIndex(m, key)]

\* dict.__setitem__: an existing key keeps its place, a new key goes last
MapPut(m, key, v) ==
    IF HasKey(m, key)
    THEN [m EXCEPT !.vals[KeyIndex(m, key)] = v]
    ELSE [m EXCEPT !.keys = Append(m.keys, key), !.vals = Append(m.vals, v)]

\* dict.__delitem__ for a key that is present
MapDel(m, key) ==
    LET i == KeyIndex(m, key)
        drop(s) == SubSeq(s, 1, i - 1) \o SubSeq(s, i + 1, Len(s))
    IN [m EXCEPT !.keys = drop(m.keys), !.vals = drop(m.vals)]

(***************************************************************************)
(* Path tokens.  split_path cuts the path string into maximal runs of word *)
(* characters and '+'; the model works on the token lists.                 *)
(***************************************************************************)
Tokens == {"a", "b", "0", "1", "+", "++"}

\* Python's int(): defined on decimal tokens, ValueError otherwise
IsIntTok(t) == t \in {"0", "1", "2", "3"}
IntOf(t) == CASE t = "0" -> 0 [] t = "1" -> 1 [] t = "2" -> 2 [] t = "3" -> 3

\* Python's  p in s  for a token p and a string s (substring test)
StrContains(s, p) == s = p \/ (s = "ab" /\ p \in {"a", "b"})

\* the characters of a string, as list.extend(str) appends them
Chars(s) == IF s = "ab" THEN <<Str("a"), Str("b")>> ELSE <<Str(s)>>

Result(err, node) == [err |-> err, node |-> node]

(***************************************************************************)
(* get_path                                                                *)
(***************************************************************************)
RECURSIVE get_path(_, _)
get_path(val, path) ==
    IF path = <<>> THEN Result(FALSE, val)
    ELSE LET p == Head(path) IN
         IF IsList(val)
         THEN IF ~IsIntTok(p) THEN Result(TRUE, None)          \* int(p): ValueError
              ELSE IF IntOf(p) < Len(val.items)
                   THEN get_path(val.items[IntOf(p) + 1], Tail(path))
                   ELSE Result(FALSE, None)
         ELSE IF IsDict(val) /\ HasKey(val, p)
              THEN get_path(MapGet(val, p), Tail(path))
              ELSE Result(FALSE, None)

(***************************************************************************)
(* set_path.  The result is the node that stands where val stood once the  *)
(* call has returned or raised (err): mutations made before a raise stay.  *)
(***************************************************************************)
\* list.extend(value)
Extend(val, value) ==
    CASE value.k = "seq" -> Result(FALSE, List(val.items \o value.items))
      [] value.k = "map" ->
           Result(FALSE, List(val.items \o [i \in 1..Len(value.keys) |-> Str(value.keys[i])]))
      [] value.k = "str" -> Result(FALSE, List(val.items \o Chars(value.s)))
      [] OTHER -> Result(TRUE, val)                            \* TypeError

\* set_last with "++" appending the value as one item, as "+" does
set_last_no_extend(val, last, value) ==
    IF IsList(val)
    THEN IF last \in {"+", "++"} THEN Result(FALSE, List(Append(val.items, value)))
         ELSE IF ~IsIntTok(last) THEN Result(TRUE, val)
         ELSE IF IntOf(last) = Len(val.items)
              THEN Result(FALSE, List(Append(val.items, value)))
         ELSE IF IntOf(last) < Len(val.items)
              THEN Result(FALSE, List([val.items EXCEPT ![IntOf(last) + 1] = value]))
              ELSE Result(TRUE, val)
    ELSE IF IsDict(val) THEN Result(FALSE, MapPut(val, last, value))
    ELSE Result(TRUE, val)

\* set_last appending for every index at or beyond the end of the list
set_last_past_end(val, last, value) ==
    IF IsList(val)
    THEN IF last = "++" THEN Extend(val, value)
         ELSE IF last = "+" THEN Result(FALSE, List(Append(val.items, value)))
         ELSE IF ~IsIntTok(last) THEN Result(TRUE, val)
         ELSE IF IntOf(last) >= Len(val.items)
              THEN Result(FALSE, List(Append(val.items, value)))
              ELSE Result(FALSE, List([val.items EXCEPT ![IntOf(last) + 1] = value]))
    ELSE IF IsDict(val) THEN Result(FALSE, MapPut(val, last, value))
    ELSE Result(TRUE, val)

set_last(val, last, value) ==
    IF IsList(val)
    THEN IF last = "++" THEN Extend(val, value)
         ELSE IF last = "+" THEN Result(FALSE, List(Append(val.items, value)))
         ELSE IF ~IsIntTok(last) THEN Result(TRUE, val)        \* int(last): ValueError
         ELSE IF IntOf(last) = Len(val.items)
              THEN Result(FALSE, List(Append(val.items, value)))
         ELSE IF IntOf(last) < Len(val.items)
              THEN Result(FALSE, List([val.items EXCEPT ![IntOf(last) + 1] = value]))
              ELSE Result(TRUE, val)                           \* IndexError
    ELSE IF IsDict(val) THEN Result(FALSE, MapPut(val, last, value))
    ELSE Result(TRUE, val)                                     \* TypeError

RECURSIVE set_walk(_, _, _, _)
set_walk(val, path, last, value) ==
    IF path = <<>> THEN set_last(val, last, value)
    ELSE LET p == Head(path)
             rest == Tail(path)
         IN
         IF IsList(val)
         THEN IF ~IsIntTok(p) THEN Result(TRUE, val)           \* ValueError
              ELSE IF IntOf(p) >= Len(val.items) THEN Result(TRUE, val)  \* IndexError
              ELSE LET r == set_walk(val.items[IntOf(p) + 1], rest, last, value)
                   IN Result(r.err, List([val.items EXCEPT ![IntOf(p) + 1] = r.node]))
         ELSE IF IsDict(val) /\ HasKey(val, p)
         THEN LET r == set_walk(MapGet(val, p), rest, last, value)
              IN Result(r.err, MapPut(val, p, r.node))
         ELSE IF val.k = "str" /\ StrContains(val.s, p)
         THEN Result(TRUE, val)                                \* val[p] on a str: TypeError
         ELSE IF val.k \in {"none", "num"}
         THEN Result(TRUE, val)                                \* p in val: TypeError
         ELSE IF p \in {"0", "+", "++"}
         THEN \* val = []: the new list is bound to the local name only
              LET r == set_walk(List(<<>>), rest, last, value)
              IN Result(r.err, val)
         ELSE IF IsDict(val)
         THEN LET r == set_walk(EmptyMap(val.cls), rest, last, value)
              IN Result(r.err, MapPut(val, p, r.node))
         ELSE Result(TRUE, val)                                \* str item assignment: TypeError

set_path(o, path, value) ==
    IF path = <<>> THEN Result(TRUE, o)                        \* path.pop(): IndexError
    ELSE set_walk(o, SubSeq(path, 1, Len(path) - 1), path[Len(path)], value)


(***************************************************************************)
(* Objdict                                                                 *)
(***************************************************************************)
\* The singleton InvalidObject
INVALID == [k |-> "invalid"]

\* keepers: the dict without the keys bound to None
keepers(m) ==
    LET RECURSIVE Keep(_)
        Keep(i) ==
            IF i > Len(m.keys) THEN <<>>
            ELSE IF m.vals[i] = None THEN Keep(i + 1)
            ELSE <<i>> \o Keep(i + 1)
        idx == Keep(1)
    IN [m EXCEPT !.keys = [j \in 1..Len(idx) |-> m.keys[idx[j]]],
                 !.vals = [j \in 1..Len(idx) |-> m.vals[idx[j]]]]

\* Objdict.from_obj: every dict below becomes a cls object built by the
\* constructor, which drops the None values
RECURSIVE from_obj(_, _)
from_obj(cls, o) ==
    CASE o.k = "seq" -> List([i \in 1..Len(o.items) |-> from_obj(cls, o.items[i])])
      [] o.k = "map" ->
           keepers(Map(cls, o.keys, [i \in 1..Len(o.vals) |-> from_obj(cls, o.vals[i])]))
      [] OTHER -> o

\* SimpleObjdict.update(other): the pairs of other in order; None deletes
RECURSIVE update(_, _)
update(self, other) ==
    IF other.keys = <<>> THEN self
    ELSE LET key == Head(other.keys)
             v == Head(other.vals)
             rest == [other EXCEPT !.keys = Tail(other.keys), !.vals = Tail(other.vals)]
             one == IF v = None
                    THEN IF HasKey(self, key) THEN MapDel(self, key) ELSE self
                    ELSE MapPut(self, key, v)
         IN update(one, rest)

\* SimpleObjdict.__setattr__
setattr(self, key, value) == update(self, Map("dict", <<key>>, <<value>>))

\* dict.__setitem__, which SimpleObjdict does not override
setitem(self, key, value) == MapPut(self, key, value)

\* SimpleObjdict.__delattr__
delattr(self, key) ==
    IF HasKey(self, key) THEN Result(FALSE, MapDel(self, key))
    ELSE Result(TRUE, self)                                    \* KeyError

\* SimpleObjdict.__missing__
missing(self, key) == INVALID

\* SimpleObjdict.__getattr__ and dict.__getitem__ with __missing__
getattr(self, key) == IF HasKey(self, key) THEN MapGet(self, key) ELSE missing(self, key)

\* Objdict.get_path and Objdict.set_path
Objdict_get_path(self, path) == get_path(self, path)
Objdict_set_path(self, path, value) == set_path(self, path, from_obj(self.cls, value))

(***************************************************************************)
(* The tree store as a state machine.  An operation is applied to a tree   *)
(* drawn from Trees; op records the call.                                  *)
(***************************************************************************)
SeqsOver(S, n) == UNION {[1..m -> S] : m \in 0..n}

Paths == SeqsOver(Tokens, MaxPathLen)

Leaves == {None, Num(5), Str("ab")}

Lists == {List(s) : s \in SeqsOver(Leaves \cup {EmptyMap("Element")}, MaxLen)}

\* Elements as from_obj builds them: no key is bound to None
SmallMaps ==
    {EmptyMap("Element")} \cup
    {Map("Element", <<key>>, <<v>>) : key \in {"a", "0"}, v \in {Num(5), Str("ab")}}

Trees ==
    Lists \cup SmallMaps \cup
    {Map("Element", <<"a">>, <<v>>) : v \in Lists \cup SmallMaps} \cup
    {Map("Element", <<"b", "a">>, <<Num(5), v>>) : v \in {List(<<Num(5)>>), EmptyMap("Element")}}

\* the values handed to the operations
RawValues == {None, Num(6), List(<<Num(7), Num(8)>>),
              Map("dict", <<"a", "b">>, <<None, Num(6)>>)}

Keys == {"a", "b"}

Idle == [name |-> "idle", path |-> <<>>, key |-> "", arg |-> None, value |-> None,
         pre |-> None, err |-> FALSE, out |-> None]

Call(name, path, key, arg, value, err, out) ==
    [name |-> name, path |-> path, key |-> key, arg |-> arg, value |-> value,
     pre |-> obj, err |-> err, out |-> out]

QIdle == [name |-> "idle", types |-> {}, src |-> <<>>, n |-> 0]

NoProbe == [test |-> "none", other |-> None, truth |-> FALSE, items |-> <<>>, err |-> FALSE]

QueryIdle == stream = <<>> /\ qop = QIdle

ChainIdle == cur = None /\ chain = <<>> /\ probe = NoProbe

StoreIdle == op = Idle

NoRes == [err |-> "", val |-> None]

\* no collector called; the class attributes of MemoizedQueryStream as the
\* class statement sets them
\* the memo table: the entries made for elements of obj, each the key
\* (element, types) and the saved results, and the number of entries made
\* for elements of other trees, which the model does not tell apart
NoMemo == [table |-> {}, others |-> 0]

\* no run of setup begun
NoRun == [phase |-> "idle", run |-> 0, i |-> 0, at |-> <<>>]

NoEnv == [files |-> {}, config |-> None]

RunIdle == pc = NoRun /\ log = <<>> /\ env = NoEnv

LaterIdle == res = NoRes /\ memo = NoMemo /\ enabled = FALSE /\ RunIdle

Init ==
    /\ obj \in Trees
    /\ StoreIdle
    /\ QueryIdle
    /\ ChainIdle
    /\ LaterIdle

\* obj.set_path(obj, path, value), as apply_patches and the tests call it
SetPath ==
    /\ op = Idle
    /\ \E path \in Paths, value \in RawValues :
        LET r == set_path(obj, path, value) IN
        /\ obj' = r.node
        /\ op' = Call("set_path", path, "", value, value, r.err, None)
    /\ UNCHANGED <<stream, qop, cur, chain, probe>>
    /\ UNCHANGED later

\* self.set_path(path, value) on an Objdict
ObjdictSetPath ==
    /\ op = Idle
    /\ IsDict(obj)
    /\ \E path \in Paths, value \in RawValues :
        LET r == Objdict_set_path(obj, path, value) IN
        /\ obj' = r.node
        /\ op' = Call("Objdict.set_path", path, "", value, from_obj(obj.cls, value),
                      r.err, None)
    /\ UNCHANGED <<stream, qop, cur, chain, probe>>
    /\ UNCHANGED later

GetPath ==
    /\ op = Idle
    /\ \E path \in Paths :
        LET r == get_path(obj, path) IN
        /\ obj' = obj
        /\ op' = Call("get_path", path, "", None, None, r.err, r.node)
    /\ UNCHANGED <<stream, qop, cur, chain, probe>>
    /\ UNCHANGED later

\* self.key = value
SetAttr ==
    /\ op = Idle
    /\ IsDict(obj)
    /\ \E key \in Keys, value \in RawValues :
        /\ obj' = setattr(obj, key, value)
        /\ op' = Call("setattr", <<>>, key, value, value, FALSE, None)
    /\ UNCHANGED <<stream, qop, cur, chain, probe>>
    /\ UNCHANGED later

\* self[key] = value
SetItem ==
    /\ op = Idle
    /\ IsDict(obj)
    /\ \E key \in Keys, value \in RawValues :
        /\ obj' = setitem(obj, key, value)
        /\ op' = Call("setitem", <<>>, key, value, value, FALSE, None)
    /\ UNCHANGED <<stream, qop, cur, chain, probe>>
    /\ UNCHANGED later

\* del self.key
DelAttr ==
    /\ op = Idle
    /\ IsDict(obj)
    /\ \E key \in Keys :
        LET r == delattr(obj, key) IN
        /\ obj' = r.node
        /\ op' = Call("delattr", <<>>, key, None, None, r.err, None)
    /\ UNCHANGED <<stream, qop, cur, chain, probe>>
    /\ UNCHANGED later

\* self.update(other)
Update ==
    /\ op = Idle
    /\ IsDict(obj)
    /\ \E k1 \in Keys, k2 \in Keys, v1 \in RawValues, v2 \in RawValues :
        /\ k1 # k2
        /\ LET other == Map("dict", <<k1, k2>>, <<v1, v2>>) IN
           /\ obj' = update(obj, other)
           /\ op' = Call("update", <<>>, "", other, other, FALSE, None)
    /\ UNCHANGED <<stream, qop, cur, chain, probe>>
    /\ UNCHANGED later

\* Objdict.from_obj(value): construction
FromObj ==
    /\ op = Idle
    /\ \E value \in RawValues \cup Trees :
        /\ obj' = from_obj("Element", value)
        /\ op' = Call("from_obj", <<>>, "", value, value, FALSE, None)
    /\ UNCHANGED <<stream, qop, cur, chain, probe>>
    /\ UNCHANGED later

Next ==
    \/ SetPath
    \/ ObjdictSetPath
    \/ GetPath
    \/ SetAttr
    \/ SetItem
    \/ DelAttr
    \/ Update
    \/ FromObj

Spec == Init /\ [][Next]_vars

(***************************************************************************)
(* Claims about the tree store, checked under Spec                         *)
(***************************************************************************)
IsSetPath == op.name \in {"set_path", "Objdict.set_path"}

Prefix(path) == SubSeq(path, 1, Len(path) - 1)
Last(path) == path[Len(path)]

\* the node the last token is applied to, before and after the call, when
\* every token before the last one leads to an existing node
TargetBefore == get_path(op.pre, Prefix(op.path))
TargetAfter == get_path(obj, Prefix(op.path))

OnList == IsSetPath /\ op.path # <<>> /\ ~TargetBefore.err /\ IsList(TargetBefore.node)

\* the number of tokens set_path has walked when it makes a new list for a
\* token "0", "+" or "++" that the current dict lacks (0: it makes none)
RECURSIVE ListMadeAt(_, _)
ListMadeAt(val, path) ==
    LET Deeper(n) == IF n = 0 THEN 0 ELSE n + 1 IN
    IF path = <<>> THEN 0
    ELSE LET p == Head(path) IN
         IF IsList(val)
         THEN IF IsIntTok(p) /\ IntOf(p) < Len(val.items)
              THEN Deeper(ListMadeAt(val.items[IntOf(p) + 1], Tail(path)))
              ELSE 0
         ELSE IF ~IsDict(val) THEN 0
         ELSE IF HasKey(val, p) THEN Deeper(ListMadeAt(MapGet(val, p), Tail(path)))
         ELSE IF p \in {"0", "+", "++"} THEN 1
         ELSE Deeper(ListMadeAt(EmptyMap(val.cls), Tail(path)))

\* C1: after set_path(T, P, V) has completed, for a path P that get_path can
\* read in T without raising, get_path(T, P) is V.
C1_RoundTrip ==
    (op.name = "set_path" /\ ~op.err /\ ~get_path(op.pre, op.path).err)
        => get_path(obj, op.path) = Result(FALSE, op.value)

\* C2: get_path never raises, whatever the tree and the path.
C2_GetNeverRaises == op.name = "get_path" => ~op.err

\* no Objdict below the node binds a key to None
RECURSIVE NoNull(_)
NoNull(v) ==
    CASE v.k = "seq" -> \A i \in 1..Len(v.items) : NoNull(v.items[i])
      [] v.k = "map" ->
           /\ v.cls = "Element" => \A i \in 1..Len(v.vals) : v.vals[i] # None
           /\ \A i \in 1..Len(v.vals) : NoNull(v.vals[i])
      [] OTHER -> TRUE

\* C3: after any Objdict operation no Objdict binds a key to None, and
\* assigning None to a key leaves the key absent.
C3_NoExplicitNull ==
    op.name \in {"from_obj", "setattr", "update", "setitem", "Objdict.set_path"}
        => /\ NoNull(obj)
           /\ (op.name \in {"setattr", "setitem"} /\ op.value = None)
                  => ~HasKey(obj, op.key)

\* C4: on a list of length N, a last token "+" or N appends the value
\* (length N+1, the value at index N) and "++" with a K-element list appends
\* its K items in order (length N+K); items 0..N-1 stay as they were.
C4_Append ==
    OnList =>
        LET before == TargetBefore.node.items
            N == Len(before)
            last == Last(op.path)
        IN /\ (last = "+" \/ (IsIntTok(last) /\ IntOf(last) = N)) =>
                  /\ ~op.err /\ ~TargetAfter.err /\ IsList(TargetAfter.node)
                  /\ Len(TargetAfter.node.items) = N + 1
                  /\ TargetAfter.node.items[N + 1] = op.value
                  /\ \A i \in 1..N : TargetAfter.node.items[i] = before[i]
           /\ (last = "++" /\ IsList(op.value)) =>
                  /\ ~op.err /\ ~TargetAfter.err /\ IsList(TargetAfter.node)
                  /\ Len(TargetAfter.node.items) = N + Len(op.value.items)
                  /\ \A j \in 1..Len(op.value.items) :
                         TargetAfter.node.items[N + j] = op.value.items[j]
                  /\ \A i \in 1..N : TargetAfter.node.items[i] = before[i]

\* a two-item list has been appended by "++" to a list that was not empty
C4_Witness ==
    /\ OnList /\ ~op.err
    /\ Last(op.path) = "++"
    /\ IsList(op.value) /\ Len(op.value.items) = 2
    /\ Len(TargetBefore.node.items) >= 1
    /\ Len(TargetAfter.node.items) = Len(TargetBefore.node.items) + 2

\* C5: on a list of length N, an integer last token i < N replaces item i and
\* changes nothing else; i > N raises and leaves the list as it was.
C5_ReplaceByIndex ==
    (OnList /\ IsIntTok(Last(op.path))) =>
        LET before == TargetBefore.node.items
            N == Len(before)
            i == IntOf(Last(op.path))
        IN /\ i < N =>
                  /\ ~op.err /\ ~TargetAfter.err
                  /\ TargetAfter.node = List([before EXCEPT ![i + 1] = op.value])
           /\ i > N =>
                  /\ op.err
                  /\ TargetAfter = TargetBefore

\* set_path has raised for an index beyond the end of a list
C5_Witness ==
    /\ OnList /\ op.err
    /\ IsIntTok(Last(op.path))
    /\ IntOf(Last(op.path)) > Len(TargetBefore.node.items)
    /\ Len(Prefix(op.path)) >= 1

\* C6: when set_path meets a token "0", "+" or "++" that the current dict
\* lacks, the tree holds a new list at that position afterwards, and the
\* rest of the path has been applied to it.
C6_AutoSequence ==
    LET n == ListMadeAt(op.pre, Prefix(op.path)) IN
    (IsSetPath /\ op.path # <<>> /\ ~op.err /\ n > 0) =>
        LET made == get_path(obj, SubSeq(op.path, 1, n))
        IN ~made.err /\ IsList(made.node) /\ made.node.items # <<>>

(***************************************************************************)
(* The Missing sentinel (InvalidObject) and Python's operators on it       *)
(***************************************************************************)
MaxChain == 3

InvalidObject_getattr(self, key) == INVALID
InvalidObject_getitem(self, index) == INVALID
InvalidObject_bool(self) == FALSE
\* __eq__ that knows the sentinel only
InvalidObject_eq_self_only(self, other) == other = INVALID
InvalidObject_eq(self, other) == other = INVALID \/ other = None
InvalidObject_iter(self) == <<>>
\* __str__ raises DocumentException
InvalidObject_str(self) == Result(TRUE, None)

\* bool(v)
py_bool(v) ==
    CASE v.k = "invalid" -> InvalidObject_bool(v)
      [] v.k = "none" -> FALSE
      [] v.k = "num" -> v.n # 0
      [] v.k = "str" -> v.s # ""
      [] v.k = "seq" -> v.items # <<>>
      [] v.k = "map" -> v.keys # <<>>

\* a == b: InvalidObject.__eq__ decides when either operand is the sentinel
\* (the other operand's __eq__ returns NotImplemented and Python reflects)
\* dicts are equal when they bind the same keys to equal values, whatever
\* their class and key order; lists when they are equal item by item
RECURSIVE py_eq(_, _)
py_eq(a, b) ==
    IF a.k = "invalid" THEN InvalidObject_eq(a, b)
    ELSE IF b.k = "invalid" THEN InvalidObject_eq(b, a)
    ELSE IF a.k # b.k THEN FALSE
    ELSE CASE a.k = "map" ->
                /\ Range(a.keys) = Range(b.keys)
                /\ \A i \in 1..Len(a.keys) : py_eq(a.vals[i], MapGet(b, a.keys[i]))
           [] a.k = "seq" ->
                /\ Len(a.items) = Len(b.items)
                /\ \A i \in 1..Len(a.items) : py_eq(a.items[i], b.items[i])
           [] OTHER -> a = b

\* v.key and v[key] on an Objdict or on the sentinel
py_getattr(v, key) == IF v.k = "invalid" THEN InvalidObject_getattr(v, key) ELSE getattr(v, key)
py_getitem(v, key) == IF v.k = "invalid" THEN InvalidObject_getitem(v, key) ELSE getattr(v, key)

\* the objects a chain of accesses starts from
Starts ==
    {INVALID, EmptyMap("Element"),
     Map("Element", <<"a">>, <<Map("Element", <<"b">>, <<EmptyMap("Element")>>)>>),
     Map("Element", <<"a", "b">>, <<Num(5), Map("Element", <<"a">>, <<Num(0)>>)>>)}

\* field names; "5" stands for the index 5, which no Objdict has as a key
Fields == {"a", "b", "5"}

Operands == {INVALID, None, Num(0), EmptyMap("dict"), EmptyMap("Element"), List(<<>>)}

InitSentinel ==
    /\ obj \in Starts
    /\ cur = obj
    /\ chain = <<>>
    /\ probe = NoProbe
    /\ StoreIdle
    /\ QueryIdle
    /\ LaterIdle

Access(kind, key) ==
    [kind |-> kind, key |-> key, absent |-> cur.k = "invalid" \/ ~HasKey(cur, key)]

\* cur.key
GetAttr ==
    /\ Len(chain) < MaxChain
    /\ cur.k \in {"map", "invalid"}
    /\ \E key \in Fields :
        /\ cur' = py_getattr(cur, key)
        /\ chain' = Append(chain, Access("attr", key))
    /\ probe' = NoProbe
    /\ UNCHANGED <<obj, op, stream, qop>>
    /\ UNCHANGED later

\* cur[key]
GetItem ==
    /\ Len(chain) < MaxChain
    /\ cur.k \in {"map", "invalid"}
    /\ \E key \in Fields :
        /\ cur' = py_getitem(cur, key)
        /\ chain' = Append(chain, Access("item", key))
    /\ probe' = NoProbe
    /\ UNCHANGED <<obj, op, stream, qop>>
    /\ UNCHANGED later

\* bool(cur)
TestBool ==
    /\ probe = NoProbe
    /\ probe' = [NoProbe EXCEPT !.test = "bool", !.truth = py_bool(cur)]
    /\ UNCHANGED <<obj, op, stream, qop, cur, chain>>
    /\ UNCHANGED later

\* cur == other and other == cur
TestEq ==
    /\ probe = NoProbe
    /\ \E other \in Operands :
        \/ probe' = [NoProbe EXCEPT !.test = "eq", !.other = other,
                                    !.truth = py_eq(cur, other)]
        \/ probe' = [NoProbe EXCEPT !.test = "eq_reflected", !.other = other,
                                    !.truth = py_eq(other, cur)]
    /\ UNCHANGED <<obj, op, stream, qop, cur, chain>>
    /\ UNCHANGED later

\* for x in cur
TestIter ==
    /\ probe = NoProbe
    /\ cur.k = "invalid"
    /\ probe' = [NoProbe EXCEPT !.test = "iter", !.items = InvalidObject_iter(cur)]
    /\ UNCHANGED <<obj, op, stream, qop, cur, chain>>
    /\ UNCHANGED later

\* str(cur)
TestStr ==
    /\ probe = NoProbe
    /\ cur.k = "invalid"
    /\ probe' = [NoProbe EXCEPT !.test = "str", !.err = InvalidObject_str(cur).err]
    /\ UNCHANGED <<obj, op, stream, qop, cur, chain>>
    /\ UNCHANGED later

NextSentinel == GetAttr \/ GetItem \/ TestBool \/ TestEq \/ TestIter \/ TestStr

SpecSentinel == InitSentinel /\ [][NextSentinel]_vars

\* the chain began at the sentinel or has asked an Objdict for an absent key
ChainIsMissing == obj = INVALID \/ \E i \in 1..Len(chain) : chain[i].absent

\* C7: a chain of accesses that starts from the sentinel or from an absent
\* key of an Objdict stays at the one sentinel; the sentinel is falsy, equal
\* to itself and to None in both operand orders and to nothing else,
\* iterates over nothing, and raises when converted to a string.
C7_Sentinel ==
    ChainIsMissing =>
        /\ cur = INVALID
        /\ probe.test = "bool" => ~probe.truth
        /\ probe.test \in {"eq", "eq_reflected"}
               => (probe.truth <=> probe.other \in {INVALID, None})
        /\ probe.test = "iter" => (~probe.err /\ probe.items = <<>>)
        /\ probe.test = "str" => probe.err

\* a chain that left an Objdict by an absent key, went on through the
\* sentinel twice more, and was then compared with the empty dict
C7_Witness ==
    /\ obj # INVALID
    /\ Len(chain) = 3
    /\ ~chain[1].absent /\ chain[2].absent
    /\ chain[3].kind = "item"
    /\ cur = INVALID
    /\ probe.test = "eq_reflected" /\ probe.other = EmptyMap("dict") /\ ~probe.truth

(***************************************************************************)
(* Query streams over a tree of Elements.  A node is named by its          *)
(* position: the child numbers (in dict or list order) from the root.      *)
(***************************************************************************)
MaxKids == 2
MaxFilters == 2

RECURSIVE NodeAt(_, _)
NodeAt(v, pos) ==
    IF pos = <<>> THEN v
    ELSE NodeAt(IF IsDict(v) THEN v.vals[Head(pos)] ELSE v.items[Head(pos)], Tail(pos))

\* the children of a node, in the order the code iterates over them
Children(v) == IF IsDict(v) THEN v.vals ELSE IF IsList(v) THEN v.items ELSE <<>>

\* subtrees yielding the node before the subtrees of its children
RECURSIVE subtrees_pre_order(_, _)
subtrees_pre_order(v, pos) ==
    LET kids == Children(v)
        RECURSIVE Below(_)
        Below(i) ==
            IF i > Len(kids) THEN <<>>
            ELSE subtrees_pre_order(kids[i], Append(pos, i)) \o Below(i + 1)
    IN <<pos>> \o Below(1)

\* obj.subtrees: the subtrees of every child in turn, then the node itself
RECURSIVE subtrees(_, _)
subtrees(v, pos) ==
    LET kids == Children(v)
        RECURSIVE Below(_)
        Below(i) ==
            IF i > Len(kids) THEN <<>>
            ELSE subtrees(kids[i], Append(pos, i)) \o Below(i + 1)
    IN Below(1) \o <<pos>>

IsElement(v) == IsDict(v) /\ v.cls = "Element"

\* Element.query: the subtrees that are Elements
Element_query(self) ==
    SelectSeq(subtrees(self, <<>>), LAMBDA pos : IsElement(NodeAt(self, pos)))

\* set(self._types), for a list of strings
TagSet(t) == {t.items[i].s : i \in 1..Len(t.items)}

\* is_instance testing the primary type only
Element_is_instance_primary(self, types) ==
    LET t == getattr(self, "_types") IN
    IF ~py_bool(t) THEN FALSE ELSE t.items[1].s \in types

\* Element.is_instance: self._types and (set(self._types) & set(types))
Element_is_instance(self, types) ==
    LET t == getattr(self, "_types") IN
    IF ~py_bool(t) THEN FALSE ELSE TagSet(t) \cap types # {}

\* Element.is_not_instance: self._types and not (set(self._types) & set(types))
Element_is_not_instance(self, types) ==
    LET t == getattr(self, "_types") IN
    IF ~py_bool(t) THEN FALSE ELSE ~(TagSet(t) \cap types # {})

\* QueryStream.is_instance and is_not_instance over the elements of root
QueryStream_is_instance(root, s, types) ==
    SelectSeq(s, LAMBDA pos : Element_is_instance(NodeAt(root, pos), types))

QueryStream_is_not_instance(root, s, types) ==
    SelectSeq(s, LAMBDA pos : Element_is_not_instance(NodeAt(root, pos), types))

\* the trees queried: Elements with or without _types, holding lists of
\* Elements and numbers, an Element and a plain dict
Tags == {"A", "B", "C"}

TagLists == {<<>>, <<"A">>, <<"A", "B">>, <<"C">>}

Typed(tags, keys, vals) ==
    Map("Element", <<"_types">> \o keys,
        <<List([i \in 1..Len(tags) |-> Str(tags[i])])>> \o vals)

LeafElements ==
    {EmptyMap("Element")} \cup {Typed(tags, <<>>, <<>>) : tags \in TagLists}

KidLists == {List(s) : s \in SeqsOver(LeafElements \cup {Num(5)}, MaxKids)}

QueryTrees ==
    {Typed(tags, <<"kids">>, <<kids>>) : tags \in {<<>>, <<"B">>}, kids \in KidLists}
    \cup {Map("Element", <<"kids">>, <<kids>>) : kids \in KidLists}
    \cup {Typed(<<"A">>, <<"sub", "plain">>,
                <<Typed(<<"C">>, <<"kids">>, <<List(<<e>>)>>),
                  Map("dict", <<"x">>, <<e>>)>>) : e \in LeafElements}

TypeSets == {{}, {"A"}, {"A", "B"}, {"C"}, {"B", "C"}}

InitQuery ==
    /\ obj \in QueryTrees
    /\ QueryIdle
    /\ StoreIdle
    /\ ChainIdle
    /\ LaterIdle

QCall(name, types) == [name |-> name, types |-> types, src |-> stream, n |-> qop.n + 1]

\* obj.query()
Query ==
    /\ qop = QIdle
    /\ stream' = Element_query(obj)
    /\ qop' = QCall("query", {})
    /\ UNCHANGED <<obj, op, cur, chain, probe>>
    /\ UNCHANGED later

\* .is_instance(*types)
IsInstance ==
    /\ qop # QIdle
    /\ qop.n <= MaxFilters
    /\ \E types \in TypeSets :
        /\ stream' = QueryStream_is_instance(obj, stream, types)
        /\ qop' = QCall("is_instance", types)
    /\ UNCHANGED <<obj, op, cur, chain, probe>>
    /\ UNCHANGED later

\* .is_not_instance(*types)
IsNotInstance ==
    /\ qop # QIdle
    /\ qop.n <= MaxFilters
    /\ \E types \in TypeSets :
        /\ stream' = QueryStream_is_not_instance(obj, stream, types)
        /\ qop' = QCall("is_not_instance", types)
    /\ UNCHANGED <<obj, op, cur, chain, probe>>
    /\ UNCHANGED later

NextQuery == Query \/ IsInstance \/ IsNotInstance

SpecQuery == InitQuery /\ [][NextQuery]_vars

(***************************************************************************)
(* Claims about query streams, checked under SpecQuery                     *)
(***************************************************************************)
RECURSIVE Positions(_)
Positions(v) ==
    {<<>>} \cup UNION {{<<i>> \o pos : pos \in Positions(Children(v)[i])} :
                          i \in 1..Len(Children(v))}

ElementPositions == {pos \in Positions(obj) : IsElement(NodeAt(obj, pos))}

IsProperPrefix(p, q) == Len(p) < Len(q) /\ SubSeq(q, 1, Len(p)) = p

\* p comes before q in depth-first post-order
PostOrderBefore(p, q) ==
    \/ IsProperPrefix(q, p)
    \/ \E n \in 1..Len(p) :
           /\ n <= Len(q)
           /\ SubSeq(p, 1, n - 1) = SubSeq(q, 1, n - 1)
           /\ p[n] < q[n]

\* C8: query() yields every Element of the tree once and nothing else, in
\* depth-first post-order: an Element after all Elements below it, siblings
\* in container order, the root last.
C8_QueryPostOrder ==
    qop.name = "query" =>
        /\ \A i \in 1..Len(stream) : stream[i] \in ElementPositions
        /\ \A pos \in ElementPositions :
               Cardinality({i \in 1..Len(stream) : stream[i] = pos}) = 1
        /\ \A i, j \in 1..Len(stream) : i < j => PostOrderBefore(stream[i], stream[j])
        /\ stream # <<>> /\ stream[Len(stream)] = <<>>

\* a query over a tree with Elements two levels below the root, next to
\* nodes that are no Elements
C8_Witness ==
    /\ qop.name = "query"
    /\ Len(stream) >= 4
    /\ \E i \in 1..Len(stream) : Len(stream[i]) >= 3
    /\ \E pos \in Positions(obj) : IsDict(NodeAt(obj, pos)) /\ ~IsElement(NodeAt(obj, pos))

\* the tags of an element (none when it has no _types)
TagsOf(e) == IF HasKey(e, "_types") THEN TagSet(MapGet(e, "_types")) ELSE {}

\* C9: is_instance(types) keeps, in stream order, exactly the elements whose
\* _types shares a tag with types.
C9_IsInstance ==
    qop.name = "is_instance" =>
        /\ stream = SelectSeq(qop.src,
                              LAMBDA pos : TagsOf(NodeAt(obj, pos)) \cap qop.types # {})
        /\ \A i \in 1..Len(qop.src) :
               TagsOf(NodeAt(obj, qop.src[i])) = {"A"} =>
                   ((\E j \in 1..Len(stream) : stream[j] = qop.src[i])
                        <=> "A" \in qop.types)

\* is_instance has kept some elements of a stream and dropped others,
\* among them one without tags
C9_Witness ==
    /\ qop.name = "is_instance"
    /\ stream # <<>>
    /\ Len(stream) < Len(qop.src)
    /\ \E i \in 1..Len(qop.src) : TagsOf(NodeAt(obj, qop.src[i])) = {}
    /\ \E i \in 1..Len(stream) : Cardinality(TagsOf(NodeAt(obj, stream[i]))) = 2

\* C10: is_not_instance(types) keeps exactly the elements whose _types shares
\* no tag with types, whatever their _types sequence, the empty one included.
C10_IsNotInstance ==
    (/\ qop.name = "is_not_instance"
     /\ \A i \in 1..Len(qop.src) : HasKey(NodeAt(obj, qop.src[i]), "_types"))
        => stream = SelectSeq(qop.src,
                              LAMBDA pos : TagsOf(NodeAt(obj, pos)) \cap qop.types = {})

(***************************************************************************)
(* Grouping, sorting and the collectors of a query stream.  The elements   *)
(* of a stream are named by their positions in obj; Ref(pos) is the        *)
(* element a collector hands back.                                         *)
(***************************************************************************)
MaxGroup == 4

Ref(pos) == [k |-> "ref", pos |-> pos]

\* repr() of the items of a list, separated by ", "
RECURSIVE py_repr_items(_)
py_repr_items(items) ==
    LET py_repr(v) == CASE v.k = "none" -> "None"
                        [] v.k = "num" -> ToString(v.n)
                        [] v.k = "str" -> "'" \o v.s \o "'"
                        [] OTHER -> "<" \o v.k \o ">"
    IN IF items = <<>> THEN ""
       ELSE IF Len(items) = 1 THEN py_repr(items[1])
       ELSE py_repr(items[1]) \o ", " \o py_repr_items(Tail(items))

\* str(): a number prints as its digits, a string as itself, the sentinel
\* raises
py_str(v) ==
    CASE v.k = "none" -> Result(FALSE, "None")
      [] v.k = "num" -> Result(FALSE, ToString(v.n))
      [] v.k = "str" -> Result(FALSE, v.s)
      [] v.k = "seq" -> Result(FALSE, "[" \o py_repr_items(v.items) \o "]")
      [] v.k = "map" -> Result(FALSE, "{" \o py_repr_items(v.vals) \o "}")
      [] v.k = "invalid" -> Result(TRUE, "")

\* the loop of grouped putting an item at the front of its group
RECURSIVE grouped_loop_newest_first(_, _, _)
grouped_loop_newest_first(items, ks, groups) ==
    IF items = <<>> THEN groups
    ELSE LET k == Head(ks)
             item == Head(items)
         IN grouped_loop_newest_first(Tail(items), Tail(ks),
                IF HasKey(groups, k)
                THEN MapPut(groups, k, <<item>> \o MapGet(groups, k))
                ELSE MapPut(groups, k, <<item>>))

\* the loop of grouped: ks[i] is str(key(item)) of items[i]; groups is the
\* OrderedDict, its values lists of items
RECURSIVE grouped_loop(_, _, _)
grouped_loop(items, ks, groups) ==
    IF items = <<>> THEN groups
    ELSE LET k == Head(ks)
             item == Head(items)
         IN grouped_loop(Tail(items), Tail(ks),
                IF HasKey(groups, k)
                THEN MapPut(groups, k, Append(MapGet(groups, k), item))
                ELSE MapPut(groups, k, <<item>>))

\* obj.grouped(seq, key=key): the groups in the order their keys were first
\* seen; a key or its str() that raises ends the call
grouped(seq, key(_)) ==
    LET vals == [i \in 1..Len(seq) |-> key(seq[i])]
        strs == [i \in 1..Len(seq) |-> IF vals[i].err THEN vals[i] ELSE py_str(vals[i].node)]
    IN IF \E i \in 1..Len(seq) : strs[i].err THEN Result(TRUE, <<>>)
       ELSE Result(FALSE,
                   grouped_loop(seq, [i \in 1..Len(seq) |-> strs[i].node],
                                EmptyMap("dict")).vals)

\* obj.grouped_by(seq, path), for the elements of root at the positions seq
grouped_by(root, seq, path) ==
    grouped(seq, LAMBDA pos : get_path(NodeAt(root, pos), path))

\* the strings the model sorts, in code point order
StrOrder == <<"1", "A", "B", "None">>

StrLess(s, t) ==
    \E i, j \in 1..Len(StrOrder) : StrOrder[i] = s /\ StrOrder[j] = t /\ i < j

\* a < b is defined between two numbers and between two strings; any other
\* pair of the keys sorted here (None, a number with a string) is a TypeError
Comparable(a, b) == a.k = b.k /\ a.k \in {"num", "str"}

py_lt(a, b) == IF a.k = "num" THEN a.n < b.n ELSE StrLess(a.s, b.s)

Reverse(s) == [i \in 1..Len(s) |-> s[Len(s) + 1 - i]]

\* insertion that puts x before the items whose key equals its key
RECURSIVE insort_before_equal(_, _)
insort_before_equal(done, x) ==
    IF done = <<>> THEN <<x>>
    ELSE IF ~py_lt(done[Len(done)].key, x.key)
         THEN Append(insort_before_equal(SubSeq(done, 1, Len(done) - 1), x), done[Len(done)])
         ELSE Append(done, x)

\* one step of the stable sort: x goes after every item that is not greater
RECURSIVE insort(_, _)
insort(done, x) ==
    IF done = <<>> THEN <<x>>
    ELSE IF py_lt(x.key, done[Len(done)].key)
         THEN Append(insort(SubSeq(done, 1, Len(done) - 1), x), done[Len(done)])
         ELSE Append(done, x)

RECURSIVE py_sorted_loop(_, _)
py_sorted_loop(done, todo) ==
    IF todo = <<>> THEN done ELSE py_sorted_loop(insort(done, Head(todo)), Tail(todo))

\* sorted(seq, key=..., reverse=...) on the pairs [item, key]: a stable sort
\* by <; reverse sorts the reversed list and reverses the outcome, so equal
\* keys keep their order either way; a comparison that is not defined raises
py_sorted(pairs, reverse) ==
    IF \E i, j \in 1..Len(pairs) : i # j /\ ~Comparable(pairs[i].key, pairs[j].key)
    THEN Result(TRUE, <<>>)
    ELSE Result(FALSE,
                IF reverse THEN Reverse(py_sorted_loop(<<>>, Reverse(pairs)))
                ELSE py_sorted_loop(<<>>, pairs))

\* obj.sorted_by(seq, path, reverse)
sorted_by(root, seq, path, reverse) ==
    LET keys == [i \in 1..Len(seq) |-> get_path(NodeAt(root, seq[i]), path)]
    IN IF \E i \in 1..Len(seq) : keys[i].err THEN Result(TRUE, <<>>)
       ELSE LET r == py_sorted([i \in 1..Len(seq) |-> [item |-> seq[i], key |-> keys[i].node]],
                               reverse)
            IN Result(r.err, [i \in 1..Len(r.node) |-> r.node[i].item])

\* QueryStream.sortgroup_by: self.sorted_by(path).grouped_by(path)
QueryStream_sortgroup_by(root, s, path) ==
    LET sorted == sorted_by(root, s, path, FALSE)
    IN IF sorted.err THEN Result(TRUE, <<>>) ELSE grouped_by(root, sorted.node, path)

\* next(self, INVALID): the element delivered and the stream left
Next_or_INVALID(s) ==
    IF s = <<>> THEN [val |-> INVALID, rest |-> s]
    ELSE [val |-> Ref(Head(s)), rest |-> Tail(s)]

Collected(err, val, rest) == [err |-> err, val |-> val, rest |-> rest]

\* optional returning the first element without looking for a second
QueryStream_optional_first(s) ==
    LET element == Next_or_INVALID(s)
    IN Collected("", element.val, element.rest)

\* QueryStream.optional
QueryStream_optional(s) ==
    LET element == Next_or_INVALID(s)
        second == Next_or_INVALID(element.rest)
    IN IF second.val # INVALID
       THEN Collected("more than one choice", None, second.rest)
       ELSE Collected("", element.val, second.rest)

\* QueryStream.one
QueryStream_one(s) ==
    LET unit == QueryStream_optional(s)
    IN IF unit.err # "" THEN unit
       ELSE IF unit.val = INVALID THEN Collected("empty list", None, unit.rest)
       ELSE unit

(***************************************************************************)
(* The collectors as a state machine: a root Element with a list of kids,  *)
(* each with or without an age; a stream is taken from it, possibly        *)
(* filtered and sorted, and one collector is called on it.                 *)
(***************************************************************************)
Ages == {Num(1), Num(2), Num(3), Str("1")}

Persons ==
    {Typed(<<"A">>, <<"age">>, <<v>>) : v \in Ages} \cup {Typed(<<"A">>, <<>>, <<>>)}

GroupTrees ==
    {Typed(<<"B">>, <<"kids">>, <<List(kids)>>) : kids \in SeqsOver(Persons, MaxGroup)}

\* the paths grouped and sorted by; the last one makes get_path raise on
\* the root, whose kids are a list
GroupPaths == {<<"age">>, <<"_types", "0">>, <<"kids", "a">>}

InitCollect ==
    /\ obj \in GroupTrees
    /\ QueryIdle
    /\ StoreIdle
    /\ ChainIdle
    /\ LaterIdle

CCall(name, path, reverse) ==
    [name |-> name, types |-> {}, src |-> stream, n |-> qop.n + 1,
     path |-> path, reverse |-> reverse]

Raised(err) == [err |-> err, val |-> None]
Returned(val) == [err |-> "", val |-> val]

\* a stream that has raised nothing and has had no collector called on it
Streaming == qop.name \in {"query", "is_instance", "sorted_by"} /\ res = NoRes

\* .is_instance("A") on the stream query() returned
IsInstanceA ==
    /\ qop.name = "query"
    /\ stream' = QueryStream_is_instance(obj, stream, {"A"})
    /\ qop' = QCall("is_instance", {"A"})
    /\ UNCHANGED <<obj, op, cur, chain, probe>>
    /\ UNCHANGED later

\* .sorted_by(path, reverse)
SortedBy ==
    /\ qop.name \in {"query", "is_instance"}
    /\ \E path \in GroupPaths, reverse \in BOOLEAN :
        LET r == sorted_by(obj, stream, path, reverse) IN
        /\ stream' = r.node
        /\ res' = IF r.err THEN Raised("error") ELSE res
        /\ qop' = CCall("sorted_by", path, reverse)
    /\ UNCHANGED <<obj, op, cur, chain, probe, memo, enabled>>
    /\ UNCHANGED running

\* .grouped_by(path)
GroupedBy ==
    /\ Streaming
    /\ \E path \in GroupPaths :
        LET r == grouped_by(obj, stream, path) IN
        /\ res' = IF r.err THEN Raised("error") ELSE Returned(r.node)
        /\ qop' = CCall("grouped_by", path, FALSE)
    /\ stream' = <<>>
    /\ UNCHANGED <<obj, op, cur, chain, probe, memo, enabled>>
    /\ UNCHANGED running

\* .grouped(key=lambda e: e.age)
Grouped ==
    /\ Streaming
    /\ LET r == grouped(stream, LAMBDA pos : Result(FALSE, getattr(NodeAt(obj, pos), "age"))) IN
        /\ res' = IF r.err THEN Raised("error") ELSE Returned(r.node)
        /\ qop' = CCall("grouped", <<"age">>, FALSE)
    /\ stream' = <<>>
    /\ UNCHANGED <<obj, op, cur, chain, probe, memo, enabled>>
    /\ UNCHANGED running

\* .sortgroup_by(path)
SortgroupBy ==
    /\ Streaming
    /\ \E path \in GroupPaths :
        LET r == QueryStream_sortgroup_by(obj, stream, path) IN
        /\ res' = IF r.err THEN Raised("error") ELSE Returned(r.node)
        /\ qop' = CCall("sortgroup_by", path, FALSE)
    /\ stream' = <<>>
    /\ UNCHANGED <<obj, op, cur, chain, probe, memo, enabled>>
    /\ UNCHANGED running

\* .one()
One ==
    /\ Streaming
    /\ LET r == QueryStream_one(stream) IN
        /\ res' = [err |-> r.err, val |-> r.val]
        /\ stream' = r.rest
    /\ qop' = CCall("one", <<>>, FALSE)
    /\ UNCHANGED <<obj, op, cur, chain, probe, memo, enabled>>
    /\ UNCHANGED running

\* .optional()
Optional ==
    /\ Streaming
    /\ LET r == QueryStream_optional(stream) IN
        /\ res' = [err |-> r.err, val |-> r.val]
        /\ stream' = r.rest
    /\ qop' = CCall("optional", <<>>, FALSE)
    /\ UNCHANGED <<obj, op, cur, chain, probe, memo, enabled>>
    /\ UNCHANGED running

NextCollect ==
    \/ Query
    \/ IsInstanceA
    \/ SortedBy
    \/ GroupedBy
    \/ Grouped
    \/ SortgroupBy
    \/ One
    \/ Optional

SpecCollect == InitCollect /\ [][NextCollect]_vars

(***************************************************************************)
(* Claims about grouping, sorting and the collectors, checked under        *)
(* SpecCollect                                                             *)
(***************************************************************************)
\* where the element x stands in the stream s (query delivers an element once)
IndexIn(s, x) == CHOOSE i \in 1..Len(s) : s[i] = x

\* the value the path of the call finds in the element at pos
KeyAt(pos) == get_path(NodeAt(obj, pos), qop.path).node

\* C11: grouped_by(path) and grouped(key) partition the stream: every
\* element of the input is in exactly one group, the groups stand in the
\* order of their first members in the input, and the members of a group
\* keep their input order.
C11_GroupedPartition ==
    (qop.name \in {"grouped_by", "grouped"} /\ res.err = "") =>
        LET groups == res.val
            src == qop.src
        IN /\ \A g \in 1..Len(groups) : groups[g] # <<>>
           /\ \A i \in 1..Len(src) :
                  Cardinality({<<g, m>> \in (1..Len(groups)) \X (1..MaxGroup + 1) :
                                  m <= Len(groups[g]) /\ groups[g][m] = src[i]}) = 1
           /\ \A g \in 1..Len(groups) : \A m \in 1..Len(groups[g]) :
                  \E i \in 1..Len(src) : src[i] = groups[g][m]
           /\ \A g, h \in 1..Len(groups) :
                  g < h => IndexIn(src, groups[g][1]) < IndexIn(src, groups[h][1])
           /\ \A g \in 1..Len(groups) : \A m, n \in 1..Len(groups[g]) :
                  m < n => IndexIn(src, groups[g][m]) < IndexIn(src, groups[g][n])

\* grouped_by("age") has made three groups, the first of two elements that
\* were apart in the input
C11_Witness ==
    /\ qop.name = "grouped_by" /\ qop.path = <<"age">> /\ res.err = ""
    /\ Len(res.val) = 3
    /\ Len(res.val[1]) = 2
    /\ IndexIn(qop.src, res.val[1][2]) > IndexIn(qop.src, res.val[2][1])

C13_Arity ==
    qop.name \in {"one", "optional"} =>
        /\ Len(qop.src) = 1 => res = Returned(Ref(qop.src[1]))
        /\ (Len(qop.src) = 0 /\ qop.name = "one") => res.err = "empty list"
        /\ (Len(qop.src) = 0 /\ qop.name = "optional") => res = Returned(INVALID)
        /\ Len(qop.src) >= 2 => res.err = "more than one choice"

\* optional() has refused a stream of three elements
C13_Witness ==
    /\ qop.name = "optional"
    /\ Len(qop.src) = 3
    /\ res.err = "more than one choice"

(***************************************************************************)
(* Memoized streams.  A call is element.query().is_instance(types) on an   *)
(* element of obj or of another tree; the tree is not changed.             *)
(***************************************************************************)
MemoCap == 1024

\* len(MemoizedQueryStream.memo)
MemoLen(m) == Cardinality(m.table) + m.others

\* the args tuple that keys the table, without the types
MemoKey_element_only(element, types) == [element |-> element, types |-> <<>>]

\* args = (id(self.element), *types)
MemoKey(element, types) == [element |-> element, types |-> types]

\* "if len(memo) > 1024: memo = {}"
MemoAfterCheck(m) == IF MemoLen(m) > MemoCap THEN NoMemo ELSE m

MemoHas(m, key) == \E entry \in m.table : entry.key = key

MemoGet(m, key) == (CHOOSE entry \in m.table : entry.key = key).results

\* element.query(), the elements named by their positions in root
QueryAt(root, element) ==
    LET below == Element_query(NodeAt(root, element))
    IN [i \in 1..Len(below) |-> element \o below[i]]

\* MemoizedQueryStream.is_instance on the stream element.query() returned:
\* the stream returned and the table left
MemoizedQueryStream_is_instance(root, element, types, m, on) ==
    LET unmemoized == QueryStream_is_instance(root, QueryAt(root, element), Range(types))
        key == MemoKey(element, types)
        checked == MemoAfterCheck(m)
    IN IF ~on THEN [stream |-> unmemoized, memo |-> m, hit |-> FALSE]
       ELSE IF MemoHas(checked, key)
            THEN [stream |-> MemoGet(checked, key), memo |-> checked, hit |-> TRUE]
            ELSE [stream |-> unmemoized,
                  memo |-> [checked EXCEPT !.table = @ \cup {[key |-> key, results |-> unmemoized]}],
                  hit |-> FALSE]

MemoTrees ==
    {Typed(<<"B">>, <<"kids">>, <<List(<<Typed(<<tag>>, <<"kids">>, <<List(<<Typed(<<"A", "B">>, <<>>, <<>>)>>)>>),
                                        Typed(<<"A">>, <<>>, <<>>)>>)>>) : tag \in {"A", "C"}}

\* the calls made: on the root with two tuples of types, on its first kid
\* with one
MemoCalls ==
    {[element |-> <<>>, types |-> <<"A">>],
     [element |-> <<>>, types |-> <<"B", "A">>],
     [element |-> <<2, 1>>, types |-> <<"A">>]}

InitMemo ==
    /\ obj \in MemoTrees
    /\ QueryIdle
    /\ StoreIdle
    /\ ChainIdle
    /\ LaterIdle

\* the call made: hit tells that the results came from the table, reset
\* that the call emptied the table
MCall(element, types, hit) ==
    [name |-> "query_is_instance", element |-> element, types |-> types, hit |-> hit,
     on |-> enabled, reset |-> enabled /\ MemoAfterCheck(memo) # memo]

\* MemoizedQueryStream.enable()
Enable ==
    /\ ~enabled
    /\ enabled' = TRUE
    /\ UNCHANGED <<obj, op, stream, qop, cur, chain, probe, res, memo>>
    /\ UNCHANGED running

\* element.query().is_instance(types) for an element of obj
QueryIsInstance ==
    /\ \E call \in MemoCalls :
        LET r == MemoizedQueryStream_is_instance(obj, call.element, call.types, memo, enabled) IN
        /\ stream' = r.stream
        /\ memo' = r.memo
        /\ qop' = MCall(call.element, call.types, r.hit)
    /\ UNCHANGED <<obj, op, cur, chain, probe, res, enabled>>
    /\ UNCHANGED running

\* the same call for an element of another tree and a key that is not in
\* the table
QueryIsInstanceElsewhere ==
    /\ enabled
    /\ memo' = [MemoAfterCheck(memo) EXCEPT !.others = @ + 1]
    /\ UNCHANGED <<obj, op, stream, qop, cur, chain, probe, res, enabled>>
    /\ UNCHANGED running

NextMemo == Enable \/ QueryIsInstance \/ QueryIsInstanceElsewhere

SpecMemo == InitMemo /\ [][NextMemo]_vars

(***************************************************************************)
(* Claims about memoized streams, checked under SpecMemo                   *)
(***************************************************************************)
\* C14: on a tree that is not changed, element.query().is_instance(types)
\* with memoization on yields the elements, in the order, that the
\* unmemoized is_instance yields on a fresh query of the element, also when
\* the call finds its results in the table and when it empties a full table.
C14_MemoTransparent ==
    qop.name = "query_is_instance" =>
        stream = QueryStream_is_instance(obj, QueryAt(obj, qop.element), Range(qop.types))

\* a call that found the table full, emptied it and computed two elements
C14_Witness ==
    /\ qop.name = "query_is_instance"
    /\ qop.on /\ qop.reset /\ ~qop.hit
    /\ Len(stream) = 2
    /\ MemoLen(memo) = 1

\* C15: the memo table never holds more than 1024 entries.
C15_MemoCapped == MemoLen(memo) <= MemoCap

(***************************************************************************)
(* Fixups.  A fixup directory may hold Fixup.py, whose function changes    *)
(* the element it is given, and Fixup.yaml, a dict of path: value patches. *)
(* The state of an application is s: the document tree, the fixups         *)
(* applied so far, and whether one of them has raised.                     *)
(***************************************************************************)
MaxRuns == 2

File(dir, kind) == [dir |-> dir, kind |-> kind]

Patch(path, value) == [path |-> path, value |-> value]

\* what Element.read(dir/Fixup) returns for the Fixup.yaml of a directory
Patches(dir) ==
    CASE dir = "sec1" -> <<Patch(<<"title">>, Str("T"))>>
      [] dir = "design" -> <<Patch(<<"rev">>, Num(1))>>
      [] dir = "d1/components/Base" -> <<Patch(<<"x">>, Num(1))>>
      [] dir = "d1/components/Derived" -> <<Patch(<<"x">>, Num(2))>>
      [] dir = "d1/components/Adder" -> <<Patch(<<"extra">>, Typed(<<"Base">>, <<>>, <<>>))>>
      [] dir = "d1/components/Remover" -> <<Patch(<<"kid">>, Num(0))>>
      [] dir = "d1/components/Retyped" -> <<Patch(<<"_types">>, Str("Base"))>>
      [] dir = "d1/components/Bad" -> <<Patch(<<"x">>, Num(3)), Patch(<<"_types", "7">>, Str("T"))>>
      [] dir = "sec3" -> <<Patch(<<"document_sections", "7">>, Str("sec1"))>>
      [] OTHER -> <<>>

\* the tree with the node at pos replaced by new
RECURSIVE ReplaceAt(_, _, _)
ReplaceAt(v, pos, new) ==
    IF pos = <<>> THEN new
    ELSE IF IsDict(v)
         THEN [v EXCEPT !.vals[Head(pos)] = ReplaceAt(@, Tail(pos), new)]
         ELSE [v EXCEPT !.items[Head(pos)] = ReplaceAt(@, Tail(pos), new)]

Applied(dir, kind, at) == [dir |-> dir, kind |-> kind, at |-> at]

Fixing(o, l, err) == [obj |-> o, log |-> l, err |-> err]

\* apply_fixup_function: the Fixup function of the model's Fixup.py files
\* records the directory in the element; that of a file of the kind
\* "raising" raises
apply_fixup_function(s, files, at, dir) ==
    IF s.err THEN s
    ELSE IF File(dir, "py") \in files
    THEN Fixing(ReplaceAt(s.obj, at, setattr(NodeAt(s.obj, at), "fixed", Str(dir))),
                Append(s.log, Applied(dir, "function", at)), FALSE)
    ELSE IF File(dir, "raising") \in files
    THEN Fixing(s.obj, Append(s.log, Applied(dir, "function", at)), TRUE)
    ELSE s

\* apply_patches: set_path for each item of the patches, in their order
RECURSIVE apply_patches(_, _)
apply_patches(element, patches) ==
    IF patches = <<>> THEN Result(FALSE, element)
    ELSE LET r == set_path(element, Head(patches).path, Head(patches).value)
         IN IF r.err THEN r ELSE apply_patches(r.node, Tail(patches))

\* apply_fixup_patches raising FileNotFoundError when there is no file
apply_fixup_patches_file_required(s, files, at, dir) ==
    IF s.err \/ (File(dir, "yaml") \in files /\ Patches(dir) = <<>>) THEN s
    ELSE IF File(dir, "yaml") \notin files THEN Fixing(s.obj, s.log, TRUE)
    ELSE LET r == apply_patches(NodeAt(s.obj, at), Patches(dir))
         IN Fixing(ReplaceAt(s.obj, at, r.node),
                   Append(s.log, Applied(dir, "patch", at)), r.err)

\* apply_fixup_patches suppressing every exception of apply_patches
apply_fixup_patches_suppress_all(s, files, at, dir) ==
    IF s.err \/ File(dir, "yaml") \notin files \/ Patches(dir) = <<>> THEN s
    ELSE LET r == apply_patches(NodeAt(s.obj, at), Patches(dir))
         IN Fixing(ReplaceAt(s.obj, at, r.node),
                   Append(s.log, Applied(dir, "patch", at)), FALSE)

\* apply_fixup_patches applying the patches to the document
apply_fixup_patches_to_document(s, files, at, dir) ==
    IF s.err \/ File(dir, "yaml") \notin files \/ Patches(dir) = <<>> THEN s
    ELSE LET r == apply_patches(s.obj, Patches(dir))
         IN Fixing(r.node, Append(s.log, Applied(dir, "patch", at)), r.err)

\* apply_fixup_patches: a missing file and an empty one change nothing
apply_fixup_patches(s, files, at, dir) ==
    IF s.err \/ File(dir, "yaml") \notin files \/ Patches(dir) = <<>> THEN s
    ELSE LET r == apply_patches(NodeAt(s.obj, at), Patches(dir))
         IN Fixing(ReplaceAt(s.obj, at, r.node),
                   Append(s.log, Applied(dir, "patch", at)), r.err)

\* fixup_element applying the patch before the function
fixup_element_patch_first(s, files, at, dir) ==
    apply_fixup_function(apply_fixup_patches(s, files, at, dir), files, at, dir)

\* fixup_element: the function first, then the patch
fixup_element(s, files, at, dir) ==
    apply_fixup_patches(apply_fixup_function(s, files, at, dir), files, at, dir)

RECURSIVE fixup_elements(_, _, _, _)
fixup_elements(s, files, at, dirs) ==
    IF dirs = <<>> THEN s
    ELSE fixup_elements(fixup_element(s, files, at, Head(dirs)), files, at, Tail(dirs))

\* the directories of an element's fixups, the types taken in list order
RECURSIVE snippet_dirs_in_list_order(_, _)
snippet_dirs_in_list_order(types, snippets) ==
    IF types = <<>> THEN <<>>
    ELSE [i \in 1..Len(snippets) |-> snippets[i].s \o "/components/" \o Head(types).s]
         \o snippet_dirs_in_list_order(Tail(types), snippets)

\* the post-order of the dicts of a tree
RECURSIVE scan_children_first(_, _)
scan_children_first(v, pos) ==
    LET kids == Children(v)
        RECURSIVE Below(_)
        Below(i) ==
            IF i > Len(kids) THEN <<>>
            ELSE scan_children_first(kids[i], Append(pos, i)) \o Below(i + 1)
    IN Below(1) \o (IF IsDict(v) THEN <<pos>> ELSE <<>>)

\* "for typ in reversed(element._types): for dir in document.snippets":
\* the directories dir/components/typ in the order they are visited
RECURSIVE snippet_dirs(_, _)
snippet_dirs(types, snippets) ==
    IF types = <<>> THEN <<>>
    ELSE snippet_dirs(Tail(types), snippets)
         \o [i \in 1..Len(snippets) |-> snippets[i].s \o "/components/" \o Head(types).s]

\* fixup_snippet on the element at the position at
fixup_snippet(s, files, at) ==
    LET types == getattr(NodeAt(s.obj, at), "_types")
        snippets == getattr(s.obj, "snippets")
    IN IF ~py_bool(types) THEN s
       ELSE fixup_elements(s, files, at, snippet_dirs(types.items, snippets.items))

\* find_section_directory: the model's section modules lie each in the
\* directory of its name; load_section raises for the module "nosuch"
find_section_directory(module) == Result(module = "nosuch", module)

\* the dicts of a tree in the order scan visits them
RECURSIVE scan(_, _)
scan(v, pos) ==
    LET kids == Children(v)
        RECURSIVE Below(_)
        Below(i) ==
            IF i > Len(kids) THEN <<>>
            ELSE scan(kids[i], Append(pos, i)) \o Below(i + 1)
    IN (IF IsDict(v) THEN <<pos>> ELSE <<>>) \o Below(1)

(***************************************************************************)
(* The runs of setup in one process.  setup reads the configuration,       *)
(* applies the fixups (fixup_document: a step for each section module, one *)
(* for the design, one for each dict the scan of the design visits),       *)
(* enables memoization and returns.                                        *)
(***************************************************************************)
Files ==
    {File("sec1", "py"), File("sec1", "yaml"), File("design", "py"), File("design", "yaml"),
     File("d1/components/Base", "py"), File("d1/components/Base", "yaml"),
     File("d1/components/Derived", "yaml"), File("d2/components/Derived", "py")}

TypeLists == {<<"Base", "Derived">>, <<"Derived", "Base">>, <<"Derived">>}

\* a design: an element with a kid of type Base
Designs ==
    {Typed(types, <<"kid">>, <<Typed(<<"Base">>, <<>>, <<>>)>>) : types \in TypeLists}

StrList(names) == List([i \in 1..Len(names) |-> Str(names[i])])

\* the document as setup has built it when it calls fixup_document
Documents ==
    {Map("Element", <<"document_sections", "snippets">>, <<StrList(sections), StrList(snippets)>>) :
        sections \in {<<"sec1">>, <<"sec2", "sec1">>}, snippets \in {<<"d1">>, <<"d1", "d2">>}}
    \cup
    {Map("Element", <<"design_file", "document_sections", "design", "snippets">>,
         <<Str("design/design.json"), StrList(sections), design, StrList(snippets)>>) :
        sections \in {<<"sec1">>, <<"sec2", "sec1">>}, design \in Designs,
        snippets \in {<<"d1">>, <<"d1", "d2">>}}

InitRun ==
    /\ obj = None
    /\ QueryIdle
    /\ StoreIdle
    /\ ChainIdle
    /\ res = NoRes /\ memo = NoMemo /\ enabled = FALSE
    /\ pc = NoRun
    /\ log = <<>>
    /\ env \in [files : SUBSET Files, config : Documents]

At(phase, i, at) == [phase |-> phase, run |-> pc.run, i |-> i, at |-> at]

\* where the scan goes after the dict at the position at, in the tree doc
AfterScan(doc, at) ==
    LET design == <<KeyIndex(doc, "design")>>
        below == scan(NodeAt(doc, design), <<>>)
        order == [i \in 1..Len(below) |-> design \o below[i]]
        n == IndexIn(order, at)
    IN IF n < Len(order) THEN At("elements", 0, order[n + 1]) ELSE At("fixed", 0, <<>>)

\* setup up to its call of fixup_document
Setup ==
    /\ pc.phase \in {"idle", "done"}
    /\ pc.run < MaxRuns
    /\ obj' = env.config
    /\ log' = <<>>
    /\ pc' = [phase |-> "sections", run |-> pc.run + 1, i |-> 1, at |-> <<>>]
    /\ UNCHANGED <<op, stream, qop, cur, chain, probe, res, memo, enabled, env>>

\* fixup_document: the fixups of one section module, on the document
FixupSection ==
    /\ pc.phase = "sections"
    /\ pc.i <= Len(getattr(obj, "document_sections").items)
    /\ LET dir == find_section_directory(getattr(obj, "document_sections").items[pc.i].s)
           s == IF dir.err THEN Fixing(obj, log, TRUE)
                ELSE fixup_element(Fixing(obj, log, FALSE), env.files, <<>>, dir.node)
       IN /\ obj' = s.obj
          /\ log' = s.log
          /\ pc' = IF s.err THEN At("failed", 0, <<>>) ELSE At("sections", pc.i + 1, <<>>)
    /\ UNCHANGED <<op, stream, qop, cur, chain, probe, res, memo, enabled, env>>

\* fixup_document: the fixups of the design, if a design file was named,
\* and the start of the scan of the design
FixupDesign ==
    /\ pc.phase = "sections"
    /\ pc.i > Len(getattr(obj, "document_sections").items)
    /\ LET design == <<KeyIndex(obj, "design")>>
           s == IF py_bool(getattr(obj, "design_file"))
                THEN fixup_element(Fixing(obj, log, FALSE), env.files, design, "design")
                ELSE Fixing(obj, log, FALSE)
       IN /\ obj' = s.obj
          /\ log' = s.log
          /\ pc' = IF s.err THEN At("failed", 0, <<>>)
                   ELSE IF py_bool(getattr(s.obj, "snippets")) /\ py_bool(getattr(s.obj, "design"))
                        THEN At("elements", 0, <<KeyIndex(s.obj, "design")>>)
                        ELSE At("fixed", 0, <<>>)
    /\ UNCHANGED <<op, stream, qop, cur, chain, probe, res, memo, enabled, env>>

\* the scan of the design: fixup_snippet on the next dict; the log records
\* the call
FixupSnippet ==
    /\ pc.phase = "elements"
    /\ LET s == fixup_snippet(Fixing(obj, Append(log, Applied("", "visit", pc.at)), FALSE),
                              env.files, pc.at)
       IN /\ obj' = s.obj
          /\ log' = s.log
          /\ pc' = IF s.err THEN At("failed", 0, <<>>) ELSE AfterScan(s.obj, pc.at)
    /\ UNCHANGED <<op, stream, qop, cur, chain, probe, res, memo, enabled, env>>

\* setup after fixup_document has returned: MemoizedQueryStream.enable()
SetupReturn ==
    /\ pc.phase = "fixed"
    /\ enabled' = TRUE
    /\ pc' = At("done", 0, <<>>)
    /\ UNCHANGED <<obj, op, stream, qop, cur, chain, probe, res, memo, log, env>>

NextRun == Setup \/ FixupSection \/ FixupDesign \/ FixupSnippet \/ SetupReturn

SpecRun == InitRun /\ [][NextRun]_vars

(***************************************************************************)
(* Claims about the runs, checked under SpecRun                            *)
(***************************************************************************)
\* C16: memoization is off while fixup_document runs, in every run of
\* setup in the process.
C16_MemoOffDuringFixup == pc.phase \in {"sections", "elements"} => ~enabled

\* the section modules of the configuration, in their order
Modules == getattr(env.config, "document_sections").items

\* the level of a fixup, by its directory: 1 for the directory of a section
\* module, 2 for the design's, 3 for an element type's
LevelOf(entry) ==
    IF \E i \in 1..Len(Modules) : find_section_directory(Modules[i].s).node = entry.dir THEN 1
    ELSE IF entry.dir = "design" THEN 2
    ELSE 3

\* the fixups found at a directory: the function, then the patch
FoundAt(dir, at) ==
    (IF File(dir, "py") \in env.files THEN <<Applied(dir, "function", at)>> ELSE <<>>)
    \o (IF File(dir, "yaml") \in env.files /\ Patches(dir) # <<>>
        THEN <<Applied(dir, "patch", at)>> ELSE <<>>)

RECURSIVE FoundForSections(_)
FoundForSections(modules) ==
    IF modules = <<>> THEN <<>>
    ELSE FoundAt(find_section_directory(Head(modules).s).node, <<>>)
         \o FoundForSections(Tail(modules))

FoundForDesign ==
    IF HasKey(env.config, "design_file")
    THEN FoundAt("design", <<KeyIndex(env.config, "design")>>)
    ELSE <<>>

LogOfLevel(n) == SelectSeq(log, LAMBDA entry : LevelOf(entry) = n)

\* C19: the fixups of a run are applied in the order: for each section
\* module in order its function then its patch, on the document; then the
\* design's function and patch; then the elements' fixups.  No design
\* fixup comes before all the section fixups are applied, no element fixup
\* before the design's are, and at each directory the function comes
\* before the patch.
C19_FixupOrder ==
    /\ \A i, j \in 1..Len(log) : i < j => LevelOf(log[i]) <= LevelOf(log[j])
    /\ \E n \in 0..Len(FoundForSections(Modules)) :
           LogOfLevel(1) = SubSeq(FoundForSections(Modules), 1, n)
    /\ LogOfLevel(2) # <<>> \/ LogOfLevel(3) # <<>> \/ pc.phase \in {"fixed", "done"}
           => LogOfLevel(1) = FoundForSections(Modules)
    /\ LogOfLevel(2) \in {<<>>, FoundForDesign}
    /\ LogOfLevel(3) # <<>> \/ pc.phase \in {"fixed", "done"}
           => LogOfLevel(2) = FoundForDesign
    /\ \A i, j \in 1..Len(log) :
           (i < j /\ log[i].dir = log[j].dir /\ log[i].at = log[j].at)
               => ~(log[i].kind = "patch" /\ log[j].kind = "function")
    /\ \A i \in 1..Len(log) :
           LevelOf(log[i]) = 3 => IsProperPrefix(<<KeyIndex(obj, "design")>>, log[i].at)
                                  \/ log[i].at = <<KeyIndex(obj, "design")>>

\* a run of two section modules, a design and an element type, with the
\* function and the patch applied at each level
C19_Witness ==
    /\ pc.phase = "done"
    /\ Len(Modules) = 2
    /\ \A n \in 1..3 : \E i, j \in 1..Len(log) :
           /\ LevelOf(log[i]) = n /\ log[i].kind = "function"
           /\ LevelOf(log[j]) = n /\ log[j].kind = "patch"
           /\ log[i].dir = log[j].dir

\* the scenario: the element-level fixups of a run are done; the design
\* element has _types = ["Base", "Derived"]; the Base patch sets x = 1 and
\* the Derived patch x = 2
DesignElement == NodeAt(obj, <<KeyIndex(obj, "design")>>)

Scenario ==
    /\ pc.phase \in {"fixed", "done"}
    /\ HasKey(obj, "design")
    /\ getattr(DesignElement, "_types") = StrList(<<"Base", "Derived">>)
    /\ File("d1/components/Base", "yaml") \in env.files
    /\ File("d1/components/Derived", "yaml") \in env.files

\* the statement as claimed: in the scenario the element ends with x == 2
C20_DerivedWins == Scenario => getattr(DesignElement, "x") = Num(2)

\* C20: in the scenario the element ends with x == 1: the types are taken
\* in reverse list order, so the patch of the first type, Base, is applied
\* last.
C20_FirstTypeWins == Scenario => getattr(DesignElement, "x") = Num(1)

\* the scenario, both patches applied to the design element
C20_Witness ==
    /\ Scenario
    /\ \E i, j \in 1..Len(log) :
           /\ i < j
           /\ log[i] = Applied("d1/components/Derived", "patch", <<KeyIndex(obj, "design")>>)
           /\ log[j] = Applied("d1/components/Base", "patch", <<KeyIndex(obj, "design")>>)

(***************************************************************************)
(* Resolution of sections and snippets.  A module path is the sequence of  *)
(* its segments; a relative path begins with the empty segment.  The       *)
(* import system is a table: for each module path whether importing it     *)
(* succeeds, and what the module then holds under its own last segment.    *)
(***************************************************************************)
\* importing the module fails with ModuleNotFoundError
Missing == [state |-> "missing", attr |-> "none"]
\* importing the module raises another exception
Broken == [state |-> "broken", attr |-> "none"]
\* the module is imported and holds nothing, something not callable or a
\* function under the name
Found(attr) == [state |-> "found", attr |-> attr]

ModuleStates == {Missing, Broken, Found("none"), Found("module"), Found("function")}

Front(path) == SubSeq(path, 1, Len(path) - 1)

Imported(err, path, modules) == [err |-> err, path |-> path, modules |-> modules]

\* the packages every lookup goes through
Packages == {<<"components">>, <<"components", "A">>, <<"components", "B">>}

ModuleState(modules, path) ==
    IF path \in DOMAIN modules THEN modules[path]
    ELSE IF path \in Packages THEN Found("none") ELSE Missing

\* importlib.import_module: the parent package is imported first, and a
\* submodule that is imported is bound in its parent under its name
RECURSIVE import_module(_, _)
import_module(modules, path) ==
    LET up == IF Len(path) > 1 THEN import_module(modules, Front(path))
              ELSE Imported("", <<>>, modules)
        own == ModuleState(modules, path)
    IN IF up.err # "" THEN Imported(up.err, path, up.modules)
       ELSE IF own.state = "missing" THEN Imported("ModuleNotFoundError", path, up.modules)
       ELSE IF own.state = "broken" THEN Imported("Error", path, up.modules)
       ELSE IF Front(path) \in DOMAIN modules /\ path[Len(path)] = path[Len(path) - 1]
            THEN Imported("", path, [up.modules EXCEPT ![Front(path)].attr = "module"])
            ELSE Imported("", path, up.modules)

\* importer.import_function
import_function(modules, section_path, function_name) ==
    LET module == import_module(modules, section_path)
    IN IF module.err # "" THEN module
       ELSE IF ModuleState(modules, section_path).attr = "none" \* not hasattr
            THEN Imported("FunctionNotFoundError", section_path, module.modules)
       ELSE IF ModuleState(modules, section_path).attr # "function" \* not callable
            THEN Imported("FunctionNotFoundError", section_path, module.modules)
       ELSE module

Loaded(err, path, tried, modules) ==
    [err |-> err, path |-> path, tried |-> tried, modules |-> modules]

\* the relative path after _curpath_ without its last segment
absolute(path, curpath) ==
    IF Head(path) # "" THEN path
    ELSE (IF Len(curpath) = 1 THEN curpath ELSE Front(curpath)) \o Tail(path)

\* load_section that makes the first lookup only
load_section_no_retry(modules, path, curpath) ==
    IF Head(path) = "" /\ curpath = <<>>
    THEN Loaded("DocumentException", path, <<>>, modules)
    ELSE LET abs == absolute(path, curpath)
             first == import_function(modules, abs, abs[Len(abs)])
         IN Loaded(first.err, abs, <<abs>>, first.modules)

\* section.load_section: the path it binds as _curpath_, the imports it has
\* tried and the import system it leaves; curpath is <<>> for
\* _curpath_ = None
load_section(modules, path, curpath) ==
    IF Head(path) = "" /\ curpath = <<>>
    THEN Loaded("DocumentException", path, <<>>, modules)
    ELSE LET abs == absolute(path, curpath)
             function_name == abs[Len(abs)]
             first == import_function(modules, abs, function_name)
             sub == Append(abs, function_name)
             second == import_function(first.modules, sub, function_name)
         IN IF first.err \in {"ModuleNotFoundError", "FunctionNotFoundError"}
            THEN Loaded(second.err, sub, <<abs, sub>>, second.modules)
            ELSE Loaded(first.err, abs, <<abs>>, first.modules)

\* iter(types) for a list or the sentinel
InvalidObject_iter_or_items(types) ==
    IF types = INVALID THEN InvalidObject_iter(types) ELSE types.items

\* section.snippet_paths
snippet_paths(snippet_name, types) ==
    [i \in 1..Len(types) |-> <<"components", types[i].s, snippet_name>>]

\* the loop of Snippet over the paths: the first that loads, the exception
\* that is not suppressed, or the end of the paths
RECURSIVE Snippet_loop(_, _, _)
Snippet_loop(modules, paths, tried) ==
    IF paths = <<>> THEN Loaded("SnippetNotFound", <<>>, tried, modules)
    ELSE LET r == load_section(modules, Head(paths), <<>>)
         IN IF r.err \in {"ModuleNotFoundError", "FunctionNotFoundError"}
            THEN Snippet_loop(r.modules, Tail(paths), tried \o r.tried)
            ELSE Loaded(r.err, r.path, tried \o r.tried, r.modules)

\* section.Snippet up to the call of the function found.  The message of
\* SnippetNotFound formats scope._types: for an element without _types that
\* is the sentinel, whose __str__ raises DocumentException
Snippet(modules, snippet_name, scope) ==
    LET types == getattr(scope, "_types")
        paths == snippet_paths(snippet_name, InvalidObject_iter_or_items(types))
        r == Snippet_loop(modules, paths, <<>>)
    IN IF r.err = "SnippetNotFound" /\ py_str(types).err
       THEN Loaded("DocumentException", <<>>, r.tried, r.modules)
       ELSE r

(***************************************************************************)
(* Specification of resolution: an import system and an element are        *)
(* chosen, then Snippet and load_section are called.                       *)
(***************************************************************************)
Roles == {"r"}

Candidate(type, role) == <<"components", type, role>>

\* the modules a lookup of role r for the types A and B can import
ModulePaths ==
    UNION {{Candidate(t, r), Append(Candidate(t, r), r)} : t \in {"A", "B"}, r \in Roles}

ModuleTables == [ModulePaths -> ModuleStates]

\* elements with no _types, with an empty list and with one or two types
Scopes ==
    {Map("Element", <<>>, <<>>)}
    \cup {Typed(tags, <<>>, <<>>) : tags \in {<<>>, <<"A">>, <<"B">>, <<"A", "B">>, <<"B", "A">>}}

RelativePaths == {<<"", r>> : r \in Roles}

\* _curpath_ of the caller: None, a top-level module or a section of A or B
CurPaths == {<<>>, <<"components">>, <<"components", "A", "x">>, <<"components", "B", "x">>}

InitResolve ==
    /\ obj \in Scopes
    /\ StoreIdle
    /\ QueryIdle
    /\ ChainIdle
    /\ res = NoRes /\ memo = NoMemo /\ enabled = FALSE
    /\ pc = NoRun /\ log = <<>>
    /\ env \in [modules : ModuleTables]

\* the call, the import system it found and what it gave
RCall(name, role, path, curpath, r) ==
    [name |-> name, role |-> role, path |-> path, curpath |-> curpath,
     pre |-> env.modules, err |-> r.err, bound |-> r.path, tried |-> r.tried]

\* Snippet(role, obj)
SnippetA ==
    \E role \in Roles :
        LET r == Snippet(env.modules, role, obj)
        IN /\ op' = RCall("Snippet", role, <<>>, <<>>, r)
           /\ env' = [modules |-> r.modules]
           /\ UNCHANGED <<obj, stream, qop, cur, chain, probe, res, memo, enabled, pc, log>>

\* load_section(path) with an absolute path
LoadSection ==
    \E path \in ModulePaths :
        LET r == load_section(env.modules, path, <<>>)
        IN /\ op' = RCall("load_section", "", path, <<>>, r)
           /\ env' = [modules |-> r.modules]
           /\ UNCHANGED <<obj, stream, qop, cur, chain, probe, res, memo, enabled, pc, log>>

\* load_section(path, _curpath_ = curpath) with a relative path
LoadSectionRelative ==
    \E path \in RelativePaths, curpath \in CurPaths :
        LET r == load_section(env.modules, path, curpath)
        IN /\ op' = RCall("load_section", "", path, curpath, r)
           /\ env' = [modules |-> r.modules]
           /\ UNCHANGED <<obj, stream, qop, cur, chain, probe, res, memo, enabled, pc, log>>

NextResolve == SnippetA \/ LoadSection \/ LoadSectionRelative

SpecResolve == InitResolve /\ [][NextResolve]_vars

(***************************************************************************)
(* Claims about resolution.  They are stated over the import system the    *)
(* call found, op.pre.                                                     *)
(***************************************************************************)
NotFoundErrors == {"ModuleNotFoundError", "FunctionNotFoundError"}

\* what importing path reports in the import system the call found, its
\* packages first: "ok", "notfound" or "error"
RECURSIVE Importable(_)
Importable(path) ==
    LET up == IF Len(path) > 1 THEN Importable(Front(path)) ELSE "ok"
        own == ModuleState(op.pre, path).state
    IN IF up # "ok" THEN up
       ELSE IF own = "missing" THEN "notfound"
       ELSE IF own = "broken" THEN "error"
       ELSE "ok"

\* what a lookup of the last segment of path in module path reports:
\* "function", "notfound" or "error"
Lookup(path) ==
    IF Importable(path) # "ok" THEN Importable(path)
    ELSE IF ModuleState(op.pre, path).attr = "function" THEN "function"
    ELSE "notfound"

Sub(path) == Append(path, path[Len(path)])

\* a candidate resolves to a callable: directly or in the module of its name
Resolves(path) ==
    \/ Lookup(path) = "function"
    \/ Lookup(path) = "notfound" /\ Lookup(Sub(path)) = "function"

\* a candidate fails to resolve: both lookups report not-found
Unresolved(path) == Lookup(path) = "notfound" /\ Lookup(Sub(path)) = "notfound"

\* the tags of the element in list order: none for an empty or a missing
\* _types
TagList(element) ==
    IF HasKey(element, "_types") THEN [i \in 1..Len(MapGet(element, "_types").items) |->
                                          MapGet(element, "_types").items[i].s]
    ELSE <<>>

\* C17: Snippet(role, element) invokes the implementation of the first tag
\* of element._types whose candidate components.<T>.<role> resolves, a later
\* tag being used only if every earlier tag fails to resolve, and fails with
\* SnippetNotFound if no tag resolves, an empty or a missing _types included
C17_SnippetFirstTag ==
    op.name = "Snippet" =>
        LET tags == TagList(obj)
            cand(i) == Candidate(tags[i], op.role)
        IN /\ \A i \in 1..Len(tags) :
                  (Resolves(cand(i)) /\ \A j \in 1..(i - 1) : Unresolved(cand(j)))
                      => /\ op.err = ""
                         /\ op.bound \in {cand(i), Sub(cand(i))}
           /\ (\A i \in 1..Len(tags) : Unresolved(cand(i)))
                  => op.err = "SnippetNotFound"

\* C18: load_section(path) looks the last segment of path up in module path
\* first; it retries with module path.<last segment> only if that lookup
\* reports module-not-found or function-not-found; if the retry fails too,
\* its error propagates; the path bound for the callee is the one that
\* resolved
C18_LoadSectionFallback ==
    (op.name = "load_section" /\ op.err # "DocumentException") =>
        LET abs == absolute(op.path, op.curpath)
        IN /\ op.tried # <<>> /\ op.tried[1] = abs
           /\ Len(op.tried) <= 2
           /\ Len(op.tried) = 2 <=> Lookup(abs) = "notfound"
           /\ Len(op.tried) = 2 => op.tried[2] = Sub(abs)
           /\ Lookup(abs) = "function" => op.err = "" /\ op.bound = abs
           /\ Lookup(abs) = "error" => op.err = "Error"
           /\ (Lookup(abs) = "notfound" /\ Lookup(Sub(abs)) = "function")
                  => op.err = "" /\ op.bound = Sub(abs)
           /\ (Lookup(abs) = "notfound" /\ Lookup(Sub(abs)) = "notfound")
                  => op.err \in NotFoundErrors
           /\ (Lookup(abs) = "notfound" /\ Lookup(Sub(abs)) = "error")
                  => op.err = "Error"

\* a load_section whose first lookup reported not-found and whose retry
\* resolved, bound to the path of the retry
C18_Witness ==
    /\ op.name = "load_section"
    /\ Len(op.tried) = 2
    /\ op.err = ""
    /\ op.bound = Sub(op.path)
    /\ Lookup(op.path) = "notfound"

(***************************************************************************)
(* Configuration files (config_file.py).  A file name is the sequence of   *)
(* its dot-separated parts, <<"f", "yml">> for f.yml.  The file system is  *)
(* a function from the names of the files that exist to their contents, a  *)
(* text of tokens in the format it was written in.                         *)
(***************************************************************************)
Tok(t, text) == [t |-> t, text |-> text]

\* what yaml resolves a plain scalar to
yaml_resolve(text) ==
    IF IsIntTok(text) THEN Num(IntOf(text))
    ELSE IF text \in {"null", "~", ""} THEN None
    ELSE Str(text)

\* a scalar as json.dump and yaml.safe_dump write it: json quotes every
\* string, yaml those a plain scalar would not be read back as a string
dump_scalar(v, fmt) ==
    CASE v.k = "none" -> Tok("plain", "null")
      [] v.k = "num" -> Tok("plain", ToString(v.n))
      [] v.k = "str" -> IF fmt = "json" \/ yaml_resolve(v.s) # Str(v.s)
                        THEN Tok("quoted", v.s) ELSE Tok("plain", v.s)

\* json.dump / yaml.safe_dump
RECURSIVE dump(_, _)
dump(v, fmt) ==
    LET RECURSIVE Items(_)
        Items(i) == IF i > Len(v.items) THEN <<>> ELSE dump(v.items[i], fmt) \o Items(i + 1)
        RECURSIVE Pairs(_)
        Pairs(i) ==
            IF i > Len(v.keys) THEN <<>>
            ELSE <<dump_scalar(Str(v.keys[i]), fmt)>> \o dump(v.vals[i], fmt) \o Pairs(i + 1)
    IN CASE v.k = "seq" -> <<Tok("[", "")>> \o Items(1) \o <<Tok("]", "")>>
         [] v.k = "map" -> <<Tok("{", "")>> \o Pairs(1) \o <<Tok("}", "")>>
         [] OTHER -> <<dump_scalar(v, fmt)>>

\* a scalar as json.load and yaml.safe_load read it
load_scalar(tok, fmt) ==
    IF tok.t = "quoted" THEN Str(tok.text)
    ELSE IF fmt = "json"
         THEN (IF tok.text = "null" THEN None ELSE Num(IntOf(tok.text)))
         ELSE yaml_resolve(tok.text)

Parsed(node, next) == [node |-> node, next |-> next]

\* json.load / yaml.safe_load: the value that starts at token i
RECURSIVE load_value(_, _, _)
load_value(toks, i, fmt) ==
    LET RECURSIVE Items(_, _)
        Items(j, acc) ==
            IF toks[j].t = "]" THEN Parsed(List(acc), j + 1)
            ELSE LET v == load_value(toks, j, fmt) IN Items(v.next, Append(acc, v.node))
        RECURSIVE Pairs(_, _)
        Pairs(j, acc) ==
            IF toks[j].t = "}" THEN Parsed(acc, j + 1)
            ELSE LET v == load_value(toks, j + 1, fmt)
                 IN Pairs(v.next, MapPut(acc, load_scalar(toks[j], fmt).s, v.node))
    IN CASE toks[i].t = "[" -> Items(i + 1, <<>>)
         [] toks[i].t = "{" -> Pairs(i + 1, EmptyMap("dict"))
         [] OTHER -> Parsed(load_scalar(toks[i], fmt), i + 1)

load_json(fs, name) == load_value(fs[name], 1, "json").node
load_yaml(fs, name) == load_value(fs[name], 1, "yaml").node

\* os.path.splitext, Path.suffix: the extension is the last part of a name
\* of several parts
Stem(filename) == IF Len(filename) > 1 THEN SubSeq(filename, 1, Len(filename) - 1) ELSE filename
Extension(filename) == IF Len(filename) > 1 THEN filename[Len(filename)] ELSE ""

\* config_file.read
config_read(fs, filename) ==
    LET path == IF filename \in DOMAIN fs THEN filename
                ELSE IF Append(filename, "yaml") \in DOMAIN fs THEN Append(filename, "yaml")
                ELSE Append(filename, "json")
    IN IF path \notin DOMAIN fs THEN Raised("FileNotFoundError")
       ELSE IF Extension(path) = "json" THEN Returned(load_json(fs, path))
       ELSE Returned(load_yaml(fs, path))

\* the name config_file.write writes to
written_name(filename) ==
    LET first == IF Extension(filename) = "yml" THEN Append(Stem(filename), "yaml") ELSE filename
    IN IF Extension(first) \notin {"yaml", "json"} THEN Append(first, "yaml") ELSE first

\* config_file.write: the file system after it
config_write(fs, o, filename) ==
    LET name == written_name(filename)
        rest == [n \in DOMAIN fs \ {name} |-> fs[n]]
    IN (name :> dump(o, Extension(name))) @@ rest

(***************************************************************************)
(* Specification of the configuration files: a directory that may hold     *)
(* older files, in which objects are written and read.                     *)
(***************************************************************************)
ConfigObjects ==
    {None, Num(1), Str("1"), Str("A"), Str("null"), Str(""), List(<<>>),
     List(<<Num(1), Str("1"), None>>), EmptyMap("dict"),
     Map("dict", <<"a", "1">>, <<Num(1), List(<<Str("A")>>)>>),
     Map("dict", <<"b">>, <<Map("dict", <<"null">>, <<Str("")>>)>>)}

FileNames == {<<"f">>, <<"f", "json">>, <<"f", "yaml">>, <<"f", "yml">>, <<"f", "txt">>}

\* the files a directory may hold before the first write
OlderFiles == {<<"f">>, <<"f", "yaml">>, <<"f", "json">>}

Older == Str("old")

InitConfig ==
    /\ obj = None
    /\ StoreIdle
    /\ QueryIdle
    /\ ChainIdle
    /\ res = NoRes /\ memo = NoMemo /\ enabled = FALSE
    /\ pc = NoRun /\ log = <<>>
    /\ \E names \in SUBSET OlderFiles :
           env = [fs |-> [n \in names |-> dump(Older, IF Extension(n) = "json" THEN "json" ELSE "yaml")]]

\* write(o, filename), in the directory as it was found
Write ==
    /\ op = Idle
    /\ \E o \in ConfigObjects, filename \in FileNames :
        /\ obj' = o
        /\ op' = [name |-> "write", filename |-> filename, written |-> filename]
        /\ env' = [fs |-> config_write(env.fs, o, filename)]
        /\ res' = NoRes
        /\ UNCHANGED <<stream, qop, cur, chain, probe, memo, enabled, pc, log>>

\* read(filename) after a write
Read ==
    /\ op # Idle
    /\ \E filename \in FileNames :
        /\ op' = [name |-> "read", filename |-> filename, written |-> op.written]
        /\ res' = config_read(env.fs, filename)
        /\ UNCHANGED <<obj, stream, qop, cur, chain, probe, memo, enabled, pc, log, env>>

NextConfig == Write \/ Read

SpecConfig == InitConfig /\ [][NextConfig]_vars

\* C24: read(filename) after write(obj, filename) returns an object equal
\* to obj, whatever the extension of filename, and so does read of the name
\* without its extension
C24_ConfigRoundTrip ==
    (op.name = "read" /\ op.filename \in {op.written, Stem(op.written)})
        => res = Returned(obj)

\* the round trip of the encodings alone: the written file holds the object
C24_Encoded ==
    op.name \in {"write", "read"} =>
        /\ written_name(op.written) \in DOMAIN env.fs
        /\ config_read(env.fs, written_name(op.written)) = Returned(obj)

(***************************************************************************)
(* Path interpolation (path_interpolation.py).  A string is the sequence   *)
(* of its characters; the names of the lookups are strings too.            *)
(***************************************************************************)
MaxText == 6

Formatted(err, out) == [err |-> err, out |-> out]

\* the first index from i on that holds the character c (0 when none does)
RECURSIVE Find(_, _, _)
Find(text, c, i) ==
    IF i > Len(text) THEN 0
    ELSE IF text[i] = c THEN i
    ELSE Find(text, c, i + 1)

\* str.format(**merged): {{ and }} give a brace, {name} the value of name;
\* a name that is no key raises KeyError, an empty one IndexError, a brace
\* that opens or closes nothing ValueError
RECURSIVE str_format(_, _, _, _)
str_format(text, merged, i, out) ==
    IF i > Len(text) THEN Formatted("", out)
    ELSE IF text[i] = "{"
         THEN IF i < Len(text) /\ text[i + 1] = "{"
              THEN str_format(text, merged, i + 2, Append(out, "{"))
              ELSE LET j == Find(text, "}", i + 1)
                       name == SubSeq(text, i + 1, j - 1)
                   IN IF j = 0 \/ Find(name, "{", 1) # 0 THEN Formatted("ValueError", out)
                      ELSE IF name = <<>> THEN Formatted("IndexError", out)
                      ELSE IF name \notin DOMAIN merged THEN Formatted("KeyError", out)
                      ELSE str_format(text, merged, j + 1, out \o merged[name])
    ELSE IF text[i] = "}"
         THEN IF i < Len(text) /\ text[i + 1] = "}"
              THEN str_format(text, merged, i + 2, Append(out, "}"))
              ELSE Formatted("ValueError", out)
    ELSE str_format(text, merged, i + 1, Append(out, text[i]))

\* dict(lookups, **kwargs)
Merged(lookups, kwargs) ==
    [n \in DOMAIN lookups \cup DOMAIN kwargs |->
        IF n \in DOMAIN kwargs THEN kwargs[n] ELSE lookups[n]]

\* os.path.abspath of a relative path, in the directory /
abspath(text) == IF text # <<>> /\ Head(text) = "/" THEN text ELSE <<"/">> \o text

(***************************************************************************)
(* Specification of interpolation: an interpolator is built from a table   *)
(* of lookups, then format or pathLookup is called and runs its loop, an   *)
(* iteration at a step.  The loop is sequential code: it keeps running.    *)
(***************************************************************************)
Texts ==
    {<<>>, <<"x">>, <<"{", "a", "}">>, <<"{", "b", "}">>, <<"{", "a", "}", "x">>,
     <<"{", "b", "}", "{", "b", "}">>, <<"{", "{", "a", "}", "}">>, <<"{", "x">>, <<"}">>,
     <<"{", "}">>}

LookupNames == {<<"a">>, <<"b">>}

LookupTables == UNION {[names -> Texts] : names \in SUBSET LookupNames}

\* the keyword arguments of a call of pathLookup
KwargsTables ==
    {<<>>, (<<"a">> :> <<"x">>), (<<"b">> :> <<"{", "a", "}">>)}

InitInterp ==
    /\ obj = None
    /\ StoreIdle
    /\ QueryIdle
    /\ ChainIdle
    /\ res = NoRes /\ memo = NoMemo /\ enabled = FALSE
    /\ pc = NoRun /\ log = <<>>
    /\ env \in [lookups : LookupTables]

\* in the loop of a call: its arguments and the loop's variables
Looping(call, merged, input, string, prev) ==
    [phase |-> "loop", call |-> call, merged |-> merged, input |-> input,
     string |-> string, prev |-> prev]

\* after the call
Left(phase, call, merged, input) ==
    [phase |-> phase, call |-> call, merged |-> merged, input |-> input,
     string |-> <<>>, prev |-> <<>>]

\* what a call returns, a string: pathLookup makes the path absolute
Text(chars) == [k |-> "text", chars |-> chars]
Value(call, string) == Text(IF call = "pathLookup" THEN abspath(string) ELSE string)

\* the call with its arguments evaluated, up to the loop
Enter(call, string, kwargs) ==
    /\ pc.phase = "idle"
    /\ IF string = <<>>
       THEN /\ pc' = Left("returned", call, Merged(env.lookups, kwargs), string)
            /\ res' = Returned(Value(call, string))
       ELSE /\ pc' = Looping(call, Merged(env.lookups, kwargs), string, string, <<>>)
            /\ res' = res
    /\ UNCHANGED <<obj, op, stream, qop, cur, chain, probe, memo, enabled, log, env>>

\* Interpolator.format(string)
Format == \E string \in Texts : Enter("format", string, <<>>)

\* pathLookup(path, **kwargs)
PathLookup ==
    \E path \in Texts, kwargs \in KwargsTables : Enter("pathLookup", path, kwargs)

\* one test of "while string != prev", and the iteration if it is entered
Iterate ==
    /\ pc.phase = "loop"
    /\ LET f == str_format(pc.string, pc.merged, 1, <<>>)
           left(phase) == Left(phase, pc.call, pc.merged, pc.input)
       IN IF pc.string = pc.prev
          THEN pc' = left("returned") /\ res' = Returned(Value(pc.call, pc.string))
          ELSE IF f.err # ""
               THEN pc' = left("raised") /\ res' = Raised(f.err)
               ELSE IF Len(f.out) > MaxText
                    THEN pc' = left("toolong") /\ res' = res
                    ELSE /\ pc' = Looping(pc.call, pc.merged, pc.input, f.out, pc.string)
                         /\ res' = res
    /\ UNCHANGED <<obj, op, stream, qop, cur, chain, probe, memo, enabled, log, env>>

NextInterp == Format \/ PathLookup \/ Iterate

SpecInterp == InitInterp /\ [][NextInterp]_vars /\ WF_vars(NextInterp)

\* C30: for every table of lookups and every input string the call
\* eventually ends: it returns, raises for a string str.format rejects, or
\* leaves the strings of the model; and what format returns is a fixed
\* point of interpolation
C30_Terminates ==
    /\ <>(pc.phase \in {"returned", "raised", "toolong"})
    /\ [](pc.phase = "returned" /\ pc.call = "format"
              => str_format(res.val.chars, env.lookups, 1, <<>>) = Formatted("", res.val.chars))

(***************************************************************************)
(* Streams and their source.  A source stream is taken from the root with  *)
(* query(); is_instance derives a stream from it; collectors are called on *)
(* either.  pc holds the derived stream: lazy (a generator over the        *)
(* source) or a list (the results MemoizedQueryStream keeps), and the      *)
(* streams collect() or count() was called on; log holds the elements the  *)
(* collectors were given, in order, with the stream that gave them.        *)
(***************************************************************************)
NoDerived == [kind |-> "none", types |-> {}, items |-> <<>>]

Derived(kind, types, items) == [kind |-> kind, types |-> types, items |-> items]

Streams(derived, spent) == [phase |-> "query", derived |-> derived, spent |-> spent]

\* MemoizedQueryStream.is_instance called on the stream s element.query()
\* returned, of which some elements may have been taken: the derived
\* stream, what is left of s, and the table
is_instance_of_stream(root, s, element, types, m, on) ==
    LET key == MemoKey(element, types)
        checked == MemoAfterCheck(m)
        results == QueryStream_is_instance(root, s, Range(types))
    IN IF ~on THEN [derived |-> Derived("lazy", Range(types), <<>>), source |-> s, memo |-> m]
       ELSE IF MemoHas(checked, key)
            THEN [derived |-> Derived("list", Range(types), MemoGet(checked, key)),
                  source |-> s, memo |-> checked]
            ELSE [derived |-> Derived("list", Range(types), results), source |-> <<>>,
                  memo |-> [checked EXCEPT !.table = @ \cup {[key |-> key, results |-> results]}]]

\* the elements a stream has still to give
Remaining(root, source, derived, target) ==
    IF target = "source" THEN source
    ELSE IF derived.kind = "lazy" THEN QueryStream_is_instance(root, source, derived.types)
    ELSE derived.items

\* the source and the derived stream after the target has given its first n
\* elements: a lazy derived stream takes from the source up to the nth match
Taken(root, source, derived, target, n) ==
    LET left == Remaining(root, source, derived, target)
        RECURSIVE Drop(_, _)
        Drop(s, k) ==
            IF k = 0 \/ s = <<>> THEN s
            ELSE Drop(Tail(s), IF Element_is_instance(NodeAt(root, Head(s)), derived.types)
                               THEN k - 1 ELSE k)
    IN IF target = "source" THEN [source |-> SubSeq(source, n + 1, Len(source)), derived |-> derived]
       ELSE IF derived.kind = "lazy" THEN [source |-> Drop(source, n), derived |-> derived]
       ELSE [source |-> source,
             derived |-> [derived EXCEPT !.items = SubSeq(left, n + 1, Len(left))]]

PyBool(b) == [k |-> "bool", b |-> b]

Given(target, s) == [i \in 1..Len(s) |-> [by |-> target, element |-> s[i]]]

InitStream ==
    /\ obj \in MemoTrees
    /\ QueryIdle
    /\ StoreIdle
    /\ ChainIdle
    /\ LaterIdle

SCall(name, target) ==
    [name |-> name, on |-> target,
     before |-> Len(Remaining(obj, stream, pc.derived, target)),
     spent |-> target \in pc.spent]

\* s = obj.query(): a new source stream
QuerySource ==
    /\ pc.phase \in {"idle", "query"}
    /\ stream' = Element_query(obj)
    /\ pc' = Streams(NoDerived, {})
    /\ log' = <<>>
    /\ qop' = [name |-> "query", on |-> "source", before |-> 0, spent |-> FALSE]
    /\ res' = NoRes
    /\ UNCHANGED <<obj, op, cur, chain, probe, memo, enabled, env>>

\* d = s.is_instance("A")
Derive ==
    /\ pc.phase = "query"
    /\ pc.derived = NoDerived
    /\ LET r == is_instance_of_stream(obj, stream, <<>>, <<"A">>, memo, enabled)
       IN /\ stream' = r.source
          /\ memo' = r.memo
          /\ pc' = Streams(r.derived, pc.spent)
    /\ qop' = SCall("is_instance", "source")
    /\ res' = NoRes
    /\ UNCHANGED <<obj, op, cur, chain, probe, enabled, log, env>>

\* the streams a collector can be called on
Targets == IF pc.phase # "query" THEN {}
           ELSE IF pc.derived = NoDerived THEN {"source"} ELSE {"source", "derived"}

\* a collector that takes n elements of the target and returns val
Collector(name, target, n, val, spends) ==
    LET left == Remaining(obj, stream, pc.derived, target)
        t == Taken(obj, stream, pc.derived, target, n)
    IN /\ stream' = t.source
       /\ pc' = Streams(t.derived, IF spends THEN pc.spent \cup {target} ELSE pc.spent)
       /\ log' = log \o Given(target, SubSeq(left, 1, n))
       /\ res' = Returned(val)
       /\ qop' = SCall(name, target)
       /\ UNCHANGED <<obj, op, cur, chain, probe, memo, enabled, env>>

Refs(s) == List([i \in 1..Len(s) |-> Ref(s[i])])

\* .collect()
Collect ==
    \E target \in Targets :
        LET left == Remaining(obj, stream, pc.derived, target)
        IN Collector("collect", target, Len(left), Refs(left), TRUE)

\* .count()
Count ==
    \E target \in Targets :
        LET left == Remaining(obj, stream, pc.derived, target)
        IN Collector("count", target, Len(left), Num(Len(left)), TRUE)

\* .first()
First ==
    \E target \in Targets :
        LET left == Remaining(obj, stream, pc.derived, target)
        IN Collector("first", target, IF left = <<>> THEN 0 ELSE 1,
                     Next_or_INVALID(left).val, FALSE)

\* .exists()
Exists ==
    \E target \in Targets :
        LET left == Remaining(obj, stream, pc.derived, target)
        IN Collector("exists", target, IF left = <<>> THEN 0 ELSE 1,
                     PyBool(Next_or_INVALID(left).val # INVALID), FALSE)

NextStream == QuerySource \/ Enable \/ Derive \/ Collect \/ Count \/ First \/ Exists

SpecStream == InitStream /\ [][NextStream]_vars

\* what a collector returns on a stream that has nothing to give
Empty(name) ==
    CASE name = "collect" -> List(<<>>)
      [] name = "count" -> Num(0)
      [] name = "first" -> INVALID
      [] name = "exists" -> PyBool(FALSE)

Collectors == {"collect", "count", "first", "exists"}

\* C28: no element of the source is given twice by the source and the
\* streams derived from it; a stream collect() or count() was called on has
\* nothing left, so that a later collector returns its empty result; first()
\* and exists() take exactly one element of a stream that is not empty
C28_SinglePass ==
    pc.phase = "query" =>
        /\ \A i, j \in 1..Len(log) : i < j => log[i].element # log[j].element
        /\ \A target \in pc.spent : Remaining(obj, stream, pc.derived, target) = <<>>
        /\ (qop.name \in Collectors /\ qop.spent) => res = Returned(Empty(qop.name))
        /\ (qop.name \in {"first", "exists"} /\ qop.before > 0)
               => Len(Remaining(obj, stream, pc.derived, qop.on)) = qop.before - 1

\* the same for the streams of a process that has not enabled memoization
C28_Unmemoized == ~enabled => C28_SinglePass

(***************************************************************************)
(* examples and remove_duplicates                                          *)
(***************************************************************************)
\* obj.examples(groups): the first item of each group
examples(groups) == [i \in 1..Len(groups) |-> groups[i][1]]

\* hash(): lists and dicts have none, nor has the sentinel, whose class
\* defines __eq__ and no __hash__
Hashable(v) == v.k \in {"none", "num", "str"}

\* the loop of remove_dups: vals[i] is key(e) of items[i]
RECURSIVE remove_dups_loop(_, _, _, _)
remove_dups_loop(items, vals, already_seen, out) ==
    IF items = <<>> THEN Returned(Refs(out))
    ELSE LET val == Head(vals) IN
         IF val.err THEN Raised("error")
         ELSE IF ~Hashable(val.node) THEN Raised("TypeError")
         ELSE IF val.node \in already_seen
              THEN remove_dups_loop(Tail(items), Tail(vals), already_seen, out)
              ELSE remove_dups_loop(Tail(items), Tail(vals), already_seen \cup {val.node},
                                    Append(out, Head(items)))

\* obj.remove_dups(seq, key=key), collected
remove_dups(seq, key(_)) ==
    remove_dups_loop(seq, [i \in 1..Len(seq) |-> key(seq[i])], {}, <<>>)

\* QueryStream.remove_duplicates(path).collect()
QueryStream_remove_duplicates(root, seq, path) ==
    remove_dups(seq, LAMBDA pos : get_path(NodeAt(root, pos), path))

\* QueryStream.examples(path).collect()
QueryStream_examples(root, seq, path) ==
    LET groups == grouped_by(root, seq, path)
    IN IF groups.err THEN Raised("error") ELSE Returned(Refs(examples(groups.node)))

\* the paths of examples and remove_duplicates: those grouped by, and the
\* list of types
ExamplePaths == GroupPaths \cup {<<"_types">>}

\* .examples(path).collect()
Examples ==
    /\ Streaming
    /\ \E path \in ExamplePaths :
        /\ res' = QueryStream_examples(obj, stream, path)
        /\ qop' = CCall("examples", path, FALSE)
    /\ stream' = <<>>
    /\ UNCHANGED <<obj, op, cur, chain, probe, memo, enabled>>
    /\ UNCHANGED running

\* .remove_duplicates(path).collect()
RemoveDuplicates ==
    /\ Streaming
    /\ \E path \in ExamplePaths :
        /\ res' = QueryStream_remove_duplicates(obj, stream, path)
        /\ qop' = CCall("remove_duplicates", path, FALSE)
    /\ stream' = <<>>
    /\ UNCHANGED <<obj, op, cur, chain, probe, memo, enabled>>
    /\ UNCHANGED running

NextExamples == Query \/ IsInstanceA \/ Examples \/ RemoveDuplicates

SpecExamples == InitCollect /\ [][NextExamples]_vars

\* the elements of the stream s that are the first with their value at the
\* path, in the order of s
RECURSIVE FirstPerValue(_, _)
FirstPerValue(s, path) ==
    IF s = <<>> THEN <<>>
    ELSE LET last == s[Len(s)]
             front == SubSeq(s, 1, Len(s) - 1)
             val == get_path(NodeAt(obj, last), path).node
         IN IF \E i \in 1..Len(front) : py_eq(get_path(NodeAt(obj, front[i]), path).node, val)
            THEN FirstPerValue(front, path)
            ELSE Append(FirstPerValue(front, path), last)

\* C29: on the same stream and path examples and remove_duplicates give the
\* same outcome, and when the path is found in every element it is the
\* elements that are the first with their value at the path, in stream order
C29_ExamplesAgree ==
    qop.name \in {"examples", "remove_duplicates"} =>
        /\ res = QueryStream_examples(obj, qop.src, qop.path)
        /\ res = QueryStream_remove_duplicates(obj, qop.src, qop.path)
        /\ (\A i \in 1..Len(qop.src) : ~get_path(NodeAt(obj, qop.src[i]), qop.path).err)
               => res = Returned(Refs(FirstPerValue(qop.src, qop.path)))

\* the same for streams whose values at the path are all numbers
C29_Numbers ==
    (/\ qop.name \in {"examples", "remove_duplicates"}
     /\ \A i \in 1..Len(qop.src) :
            LET val == get_path(NodeAt(obj, qop.src[i]), qop.path)
            IN ~val.err /\ val.node.k = "num")
    => C29_ExamplesAgree

(***************************************************************************)
(* Runs of setup whose fixups may be missing, may fail and may change the  *)
(* shape of the design: the steps are those of SpecRun, the files, the     *)
(* section modules and the designs are richer.                             *)
(***************************************************************************)
\* Fixup files that all apply
FixFound ==
    {File("sec1", "py"), File("sec1", "yaml"), File("sec3", "py"),
     File("design", "py"), File("design", "yaml"),
     File("d1/components/Base", "py"), File("d1/components/Base", "yaml"),
     File("d1/components/Derived", "py"), File("d1/components/Derived", "yaml"),
     File("d2/components/Derived", "py"),
     File("d1/components/Adder", "yaml"), File("d1/components/Remover", "yaml")}

\* Fixup.yaml files with a patch that is out of range
FixOutOfRange == {File("sec3", "yaml"), File("d1/components/Bad", "yaml")}

\* the files of a run: all found, one missing, none at all, one whose
\* function raises, one whose patch is out of range
FixFiles ==
    {FixFound, {}}
    \cup {FixFound \ {f} : f \in FixFound}
    \cup {(FixFound \ {f}) \cup {File(f.dir, "raising")} : f \in {g \in FixFound : g.kind = "py"}}
    \cup {FixFound \cup {f} : f \in FixOutOfRange}

FixTypeLists ==
    {<<"Base", "Derived">>, <<"Derived", "Base">>, <<"Adder">>, <<"Remover", "Base">>,
     <<"Adder", "Remover">>, <<"Bad", "Base">>}

\* a design: an element with a kid that has a list of one element below it
FixDesigns ==
    {Typed(types, <<"kid">>,
           <<Typed(kid, <<"sub">>, <<List(<<Typed(<<"Derived">>, <<>>, <<>>)>>)>>)>>) :
        types \in FixTypeLists, kid \in {<<"Base">>, <<"Adder">>, <<"Bad">>}}

FixSections == {<<"sec1">>, <<"sec2", "sec1">>, <<"sec3", "sec1">>, <<"nosuch", "sec1">>}

FixDocuments ==
    {Map("Element", <<"document_sections", "snippets">>, <<StrList(sections), StrList(<<"d1">>)>>) :
        sections \in FixSections}
    \cup
    {Map("Element", <<"design_file", "document_sections", "design", "snippets">>,
         <<Str("design/design.json"), StrList(sections), design, StrList(snippets)>>) :
        sections \in FixSections, design \in FixDesigns, snippets \in {<<"d1">>, <<"d1", "d2">>}}

InitFix ==
    /\ obj = None
    /\ QueryIdle
    /\ StoreIdle
    /\ ChainIdle
    /\ res = NoRes /\ memo = NoMemo /\ enabled = FALSE
    /\ pc = NoRun
    /\ log = <<>>
    /\ env \in [files : FixFiles, config : FixDocuments]

SpecFix == InitFix /\ [][NextRun]_vars

(***************************************************************************)
(* Declarative patches, one after another, on the elements of a design:    *)
(* apply_fixup_patches with the Fixup.yaml of a directory, on any Map of   *)
(* the tree.                                                               *)
(***************************************************************************)
MaxPatches == 2

PatchDirs ==
    {"d1/components/Base", "d1/components/Adder", "d1/components/Remover",
     "d1/components/Retyped", "d1/components/Bad"}

PatchFiles == {File(dir, "yaml") : dir \in PatchDirs}

PatchTrees ==
    {Typed(types, <<"kid">>,
           <<Typed(<<"Base">>, <<"sub">>, <<List(<<Typed(<<"Derived">>, <<>>, <<>>)>>)>>)>>) :
        types \in {<<"Base", "Derived">>, <<"Adder">>}}

InitPatch ==
    /\ obj \in PatchTrees
    /\ StoreIdle
    /\ QueryIdle
    /\ ChainIdle
    /\ LaterIdle

Patched(n, at, dir, err, changed) ==
    [name |-> "patch", n |-> n, at |-> at, dir |-> dir, err |-> err, changed |-> changed]

\* apply_fixup_patches(element, document, dir) on a Map of the tree
ApplyFixupPatches ==
    /\ op = Idle \/ (op.name = "patch" /\ op.n < MaxPatches)
    /\ \E at \in Range(scan(obj, <<>>)), dir \in PatchDirs :
        LET s == apply_fixup_patches(Fixing(obj, <<>>, FALSE), PatchFiles, at, dir) IN
        /\ obj' = s.obj
        /\ op' = Patched(IF op = Idle THEN 1 ELSE op.n + 1, at, dir, s.err, s.obj # obj)
    /\ UNCHANGED <<stream, qop, cur, chain, probe>>
    /\ UNCHANGED later

NextPatch == ApplyFixupPatches

SpecPatch == InitPatch /\ [][NextPatch]_vars

\* C23: after any sequence of patches every Map of the tree that has a
\* _types field holds a sequence there
C23_TypesStaySequence ==
    \A pos \in Range(scan(obj, <<>>)) :
        HasKey(NodeAt(obj, pos), "_types") => IsList(MapGet(NodeAt(obj, pos), "_types"))

\* C26: a patch applied to an element leaves the tree as it was outside the
\* element's subtree: with the subtree put back, the tree is the one before
C26_PatchScope ==
    [][op'.name = "patch" => ReplaceAt(obj', op'.at, NodeAt(obj, op'.at)) = obj]_vars

\* a patch has changed an element below the root
C26_Witness == op.name = "patch" /\ op.at # <<>> /\ op.changed /\ ~op.err

(***************************************************************************)
(* Claims about missing and failing fixups and about the scan, checked     *)
(* under SpecFix                                                           *)
(***************************************************************************)
\* the fixups of the log, without the calls of fixup_snippet
Applies == SelectSeq(log, LAMBDA entry : entry.kind # "visit")

\* the elements fixup_snippet was called on, in the order of the calls
Visits ==
    LET calls == SelectSeq(log, LAMBDA entry : entry.kind = "visit")
    IN [i \in 1..Len(calls) |-> calls[i].at]

\* a fixup that raises: the function of a raising Fixup.py, a patch with an
\* index out of range
Faulty(entry) ==
    \/ entry.kind = "function" /\ File(entry.dir, "raising") \in env.files
    \/ entry.kind = "patch" /\ File(entry.dir, "yaml") \in FixOutOfRange

\* the tree with the fixups of the entries applied, and nothing else
RECURSIVE Replay(_, _)
Replay(tree, entries) ==
    IF entries = <<>> THEN tree
    ELSE LET entry == Head(entries)
             element == NodeAt(tree, entry.at)
             fixed == IF entry.kind = "patch"
                      THEN apply_patches(element, Patches(entry.dir)).node
                      ELSE IF File(entry.dir, "py") \in env.files
                           THEN setattr(element, "fixed", Str(entry.dir))
                           ELSE element
         IN Replay(ReplaceAt(tree, entry.at, fixed), Tail(entries))

\* the directories of the fixups of the element at the position at
DirsOf(at) ==
    LET types == getattr(NodeAt(obj, at), "_types")
        snippets == getattr(obj, "snippets")
    IN IF ~IsList(types) THEN {}
       ELSE {snippets.items[j].s \o "/components/" \o types.items[i].s :
                i \in 1..Len(types.items), j \in 1..Len(snippets.items)}

\* every fixup found at a location the run has been through is in the log
AllFoundApplied ==
    /\ Range(FoundForSections(Modules)) \subseteq Range(log)
    /\ Range(FoundForDesign) \subseteq Range(log)
    /\ \A i \in 1..Len(Visits) : \A dir \in DirsOf(Visits[i]) :
           Range(FoundAt(dir, Visits[i])) \subseteq Range(log)

\* C21: a fixup that is missing is a no-op.  A run fails only at a fixup
\* that is there and raises or at a section module that does not resolve;
\* the tree is the configuration with the fixups of the log applied and
\* nothing else; and a run that meets no failure applies every fixup it
\* finds, whatever is missing elsewhere.
C21_MissingFixupNoOp ==
    /\ pc.phase = "failed" =>
           \/ Applies # <<>> /\ Faulty(Applies[Len(Applies)])
           \/ \E k \in 1..Len(Modules) : Modules[k].s = "nosuch"
    /\ pc.phase # "idle" => obj = Replay(env.config, Applies)
    /\ pc.phase \in {"fixed", "done"} => AllFoundApplied

\* a run is done in which a section module has no fixup files, the design
\* has a function and no patch, an element type has a function in one
\* snippet directory and nothing in the other; the fixups found are applied
C21_Witness ==
    /\ pc.phase = "done"
    /\ \E k \in 1..Len(Modules) : Modules[k].s = "sec2"
    /\ File("design", "yaml") \notin env.files
    /\ \E i, j, k \in 1..Len(log) :
           /\ i < j /\ j < k
           /\ log[i] = Applied("sec1", "patch", <<>>)
           /\ log[j] = Applied("design", "function", <<KeyIndex(obj, "design")>>)
           /\ log[k].dir = "d2/components/Derived" /\ log[k].kind = "function"

\* C22: a fixup that raises ends the run.  It is the last entry of the log
\* and the run has failed; a section module that does not resolve lets the
\* run go no further than the modules before it; a failed run has not
\* enabled memoization, and takes no further step.
C22_FailFast ==
    /\ [](/\ \A i \in 1..Len(Applies) :
                Faulty(Applies[i]) => i = Len(Applies) /\ pc.phase = "failed"
          /\ \A k \in 1..Len(Modules) :
                (Modules[k].s = "nosuch" /\ pc.phase # "idle") =>
                    /\ pc.phase \in {"sections", "failed"}
                    /\ pc.phase = "sections" => pc.i <= k
                    /\ \A i \in 1..Len(log) : \E n \in 1..(k - 1) : log[i].dir = Modules[n].s
          /\ pc.phase = "failed" => ~enabled)
    /\ [][pc.phase = "failed" => pc' = pc /\ log' = log /\ obj' = obj /\ enabled' = enabled]_vars

\* a run has failed at the out-of-range patch of an element below the
\* design, after the fixups of the section modules and of the design
C22_Witness ==
    /\ pc.phase = "failed"
    /\ ~enabled
    /\ Len(Applies) > 2
    /\ Applies[1].at = <<>>
    /\ Applies[Len(Applies)].kind = "patch"
    /\ Applies[Len(Applies)].dir = "d1/components/Bad"
    /\ Len(Applies[Len(Applies)].at) > 1

\* where a fixup of the element at the position at stands in the order
\* (tn,d1), ..., (tn,dm), (tn-1,d1), ..., (t1,dm), function then patch
Rank(entry) ==
    LET types == getattr(NodeAt(obj, entry.at), "_types").items
        snippets == getattr(obj, "snippets").items
        n == Len(types)
        m == Len(snippets)
        i == CHOOSE i \in 1..n : \E j \in 1..m :
                 entry.dir = snippets[j].s \o "/components/" \o types[i].s
        j == CHOOSE j \in 1..m : entry.dir = snippets[j].s \o "/components/" \o types[i].s
    IN ((n - i) * m + (j - 1)) * 2 + (IF entry.kind = "patch" THEN 1 ELSE 0)

\* the fixups applied to the element at the position at by fixup_snippet
ElementApplies(at) ==
    SelectSeq(Applies, LAMBDA entry : entry.at = at /\ entry.dir \in DirsOf(at))

\* the value the patch of a type sets at the path x
PatchedX(type) == Patches("d1/components/" \o type)[1].value

\* C25: the fixups of one element are applied in the order (tn,d1), ...,
\* (tn,dm), (tn-1,d1), ..., (t1,dm), the function of a pair before its
\* patch, and all that are found are applied; when the patches of two types
\* set the same path the value of the first type's patch is the final one.
C25_ElementOrder ==
    /\ \A v \in 1..Len(Visits) :
           LET applied == ElementApplies(Visits[v]) IN
           /\ \A a, b \in 1..Len(applied) : a < b => Rank(applied[a]) < Rank(applied[b])
           /\ pc.phase \in {"fixed", "done"} =>
                  \A dir \in DirsOf(Visits[v]) :
                      Range(FoundAt(dir, Visits[v])) \subseteq Range(applied)
    /\ (/\ pc.phase \in {"fixed", "done"}
        /\ HasKey(obj, "design")
        /\ {File("d1/components/Base", "yaml"), File("d1/components/Derived", "yaml")}
               \subseteq env.files
        /\ Range(getattr(DesignElement, "_types").items) = {Str("Base"), Str("Derived")})
       => getattr(DesignElement, "x") = PatchedX(getattr(DesignElement, "_types").items[1].s)

\* the design element has the types Derived, Base and two snippet
\* directories; the fixups of Base come first, those of Derived last, and
\* x is the value of the patch of Derived
C25_Witness ==
    /\ pc.phase = "done"
    /\ HasKey(obj, "design")
    /\ getattr(DesignElement, "_types") = StrList(<<"Derived", "Base">>)
    /\ LET at == <<KeyIndex(obj, "design")>> IN
       ElementApplies(at) =
           <<Applied("d1/components/Base", "function", at),
             Applied("d1/components/Base", "patch", at),
             Applied("d1/components/Derived", "function", at),
             Applied("d1/components/Derived", "patch", at),
             Applied("d2/components/Derived", "function", at)>>
    /\ getattr(DesignElement, "x") = Num(2)

\* the positions of the dicts of a tree
RECURSIVE MapsIn(_, _)
MapsIn(v, pos) ==
    (IF IsDict(v) THEN {pos} ELSE {})
    \cup UNION {MapsIn(Children(v)[i], Append(pos, i)) : i \in 1..Len(Children(v))}

\* p comes before q in pre-order: p is above q, or left of it
Before(p, q) ==
    \/ IsProperPrefix(p, q)
    \/ \E k \in 1..Len(p) :
           k <= Len(q) /\ SubSeq(p, 1, k - 1) = SubSeq(q, 1, k - 1) /\ p[k] < q[k]

\* the dicts of the design, as the tree is now
DesignMaps ==
    LET design == <<KeyIndex(obj, "design")>>
    IN {design \o p : p \in MapsIn(NodeAt(obj, design), <<>>)}

\* C27: the scan of the design is in pre-order over the tree as the fixups
\* change it.  No element is visited twice and the visits are in pre-order;
\* an element's fixups are applied at its visit, before the visit of any
\* element below it; the elements visited so far are the dicts of the tree
\* that come before the one the scan stands at, and at the end of the scan
\* every dict of the design has been visited, the added ones too, and no
\* removed one.
C27_ScanPreOrder ==
    pc.phase \in {"elements", "fixed", "done"} =>
        /\ \A i, j \in 1..Len(Visits) : i < j => Before(Visits[i], Visits[j])
        /\ \A i \in 1..Len(log) :
               (log[i].kind # "visit" /\ LevelOf(log[i]) = 3) =>
                   \E v \in 1..(i - 1) :
                       /\ log[v] = Applied("", "visit", log[i].at)
                       /\ \A w \in (v + 1)..(i - 1) : log[w].kind # "visit"
        /\ pc.phase = "elements" =>
               Range(Visits) = {p \in DesignMaps : Before(p, pc.at)} /\ pc.at \in DesignMaps
        /\ (/\ pc.phase \in {"fixed", "done"}
            /\ py_bool(getattr(obj, "snippets"))
            /\ py_bool(getattr(obj, "design")))
               => Range(Visits) = DesignMaps

\* the scan is done on a design whose fixups have removed the kid and
\* added an element: the added element has been visited and fixed up, the
\* place of the removed one has not
C27_Witness ==
    /\ pc.phase = "done"
    /\ HasKey(obj, "design")
    /\ getattr(DesignElement, "kid") = Num(0)
    /\ HasKey(DesignElement, "extra")
    /\ HasKey(getattr(DesignElement, "extra"), "fixed")
    /\ <<KeyIndex(obj, "design"), KeyIndex(DesignElement, "extra")>> \in Range(Visits)
    /\ <<KeyIndex(obj, "design"), KeyIndex(DesignElement, "kid")>> \notin Range(Visits)

====
